---------------------------- MODULE Spec2Model ----------------------------
(***************************************************************************)
(* The 256-colour matchers of rdb/colour_conv.c and rdb/evil_colour.c.     *)
(*                                                                         *)
(* The program is a set of functions on (r,g,b) triples.  The state is the *)
(* activation record of the one call in progress: the arguments, the       *)
(* locals of the function being run and its return value.  A call is       *)
(* started from the idle state with arguments drawn from a bounded input   *)
(* set, the two search loops advance one candidate per step, and Finish    *)
(* drops the activation record again.                                      *)
(***************************************************************************)
EXTENDS Integers, Sequences, FiniteSets, TLC

VARIABLES
    fn,              \* the function being run ("none" when idle)
    pc,              \* "idle", "loop" (inside a for loop) or "done"
    r, g, b,         \* the arguments
    c,               \* the loop counter of the search loops
    best_diff,       \* int best_diff
    nearest_static,  \* int nearest_static
    nr, ng, nb,      \* int nr, ng, nb
    this_diff,       \* int this_diff of the last loop iteration
    grey,            \* the locals of PuTTY_256's grey block (tw, nw, tc, tg)
    dE,              \* the double returned by rgbCIEDE2000 in the last iteration
    xyz,             \* the struct xyzcolour returned by sRGB_to_xyz
    ret,             \* the int returned
    ucs,             \* the argument of mk_wcwidth
    lab,             \* the struct labcolour returned by xyz_to_lab
    fp_contract,     \* whether the build of the call in progress contracts
                     \* a*b + c into one fused operation
    lab1, lab2,      \* the arguments of deltaE2000, as <<L, a, b>>
    skew,            \* the rounding errors by which the b of lab2 is off
                     \* lab2[3]
    hue_err,         \* what rounding to double adds to the hue of lab1 and
                     \* to the hue of lab2
    kept_wide,       \* the locals of deltaE2000 the build of the call in
                     \* progress keeps at more than double precision
    diffs,           \* deltaE2000's dL and dC (0, or 1 for a double that
                     \* is not 0), dhp (an angle) and dH (its sign)
    twice_hp,        \* deltaE2000's hp, doubled
    delta_e,         \* *delta_e: 0, or 1 for a double that is not 0
    search,          \* bisearch's table argument and its min, max and mid
    str,             \* mk_wcswidth's arguments pwcs and n
    conv             \* wc_to_mb's arguments wcstr, wclen and mblen and the
                     \* bytes it has put in mbstr

\* The variables the colour functions do not touch.
widthVars == <<ucs>>

\* The variables of xyz_to_lab, which the matchers of the model do not touch.
labVars == <<lab, fp_contract>>

\* The variables of deltaE2000.
deltaVars == <<lab1, lab2, skew, hue_err, kept_wide, diffs, twice_hp, delta_e>>

\* The variables mk_wcwidth does not touch.
colourVars == <<r, g, b, c, best_diff, nearest_static, nr, ng, nb,
                this_diff, grey, dE, xyz>>

\* The variables of bisearch, mk_wcswidth and wc_to_mb.
textVars == <<search, str, conv>>

vars == <<fn, pc, colourVars, ret, widthVars, labVars, deltaVars, textVars>>

----------------------------------------------------------------------------
(* Bounds of the model.                                                    *)

\* The grid inputs are the (GridN+1)^3 triples of channel values i*255/GridN.
GridN == 5

\* Near-grey inputs (v, v+d, v+e) take d and e in -Spread..Spread.
Spread == 2

\* rgbCIEDE2000 returns one of the values k / (10000 * DESub), k in 0..MaxDE:
\* DESub values between two consecutive multiples of 1/10000.
MaxDE == 2
DESub == 2

\* mk_wcwidth is called on the code points at most WidthMargin away from an
\* end of an interval of its tables.
WidthMargin == 1

\* deltaE2000 is called on Lab triples with L in 0..LabMax and a, b in
\* -LabMax..LabMax.
LabMax == 1

----------------------------------------------------------------------------
(* C integer arithmetic.                                                   *)

Abs(x) == IF x < 0 THEN -x ELSE x

\* The floor division a bug would use in place of C's truncating one.
FloorDiv(a, d) == a \div d

\* C's a / d for d > 0: the quotient is truncated toward zero.
CDiv(a, d) == IF a >= 0 THEN a \div d ELSE -((-a) \div d)

----------------------------------------------------------------------------
(* The palette as the search loops decode it.                              *)

\* nr = nr ? nr * 40 + 55 : 0
CubeComp(n) == IF n # 0 THEN n * 40 + 55 ELSE 0

\* A decoding that mixes up the green and blue coordinates.
DecodeSwapped(i) == <<i \div 36, i % 6, (i \div 6) % 6>>

\* nr = i / 36; ng = (i / 6) % 6; nb = i % 6   (i >= 0)
CubeDecode(i) == <<i \div 36, (i \div 6) % 6, i % 6>>

\* A ramp that starts at 0 instead of 8.
GreyRampNoOffset(i) == i * 10

\* A ramp that repeats each level once.
GreyRampFlat(i) == (i \div 2) * 20 + 8

\* nr=ng=nb = i * 10 + 8, with i already reduced by 216
GreyRamp(i) == i * 10 + 8

\* The body of XTerm_256's loop up to the distance: the colour of index c.
PaletteEntryRgb(k) ==
    LET i == k - 16 IN
    IF k < 232
    THEN LET n == CubeDecode(i) IN
         <<CubeComp(n[1]), CubeComp(n[2]), CubeComp(n[3])>>
    ELSE LET j == i - 216 IN
         <<GreyRamp(j), GreyRamp(j), GreyRamp(j)>>

\* A decoding that tests c <= 232 for the cube.
UnusedPaletteLate(k) ==
    LET i == k - 16 IN
    IF k <= 232
    THEN <<CubeComp(i \div 36), CubeComp((i \div 6) % 6), CubeComp(i % 6)>>
    ELSE LET j == i - 216 IN <<j * 10 + 8, j * 10 + 8, j * 10 + 8>>

\* The colour of index c as XTerm_256_unused's loop decodes it:
\* int i = c-16; if (c<232) { nr = i / 36; ng = (i / 6) % 6; nb = i % 6;
\* nr = nr ? nr * 40 + 55 : 0; ... } else { i = i - 216; nr=ng=nb = i * 10 + 8; }
UnusedPaletteRgb(k) ==
    LET i == k - 16 IN
    IF k < 232
    THEN LET xr == i \div 36
             xg == (i \div 6) % 6
             xb == i % 6
         IN  <<IF xr # 0 THEN xr * 40 + 55 ELSE 0,
               IF xg # 0 THEN xg * 40 + 55 ELSE 0,
               IF xb # 0 THEN xb * 40 + 55 ELSE 0>>
    ELSE LET j == i - 216 IN <<j * 10 + 8, j * 10 + 8, j * 10 + 8>>

\* d = nr-r; this_diff += d*d; ... for the three channels
SqDiff(p, ar, ag, ab) ==
    (p[1] - ar) * (p[1] - ar) + (p[2] - ag) * (p[2] - ag)
        + (p[3] - ab) * (p[3] - ab)

\* An update test with the comparison the wrong way round.
ImprovesReversed(best, this) == best < 0 \/ best < this

\* An update test that also replaces the best on an equal distance.
ImprovesOrEqual(best, this) == best < 0 \/ best >= this

\* if (best_diff<0 || best_diff>this_diff)
Improves(best, this) == best < 0 \/ best > this

----------------------------------------------------------------------------
(* PuTTY_256, the analytic matcher.                                        *)

\* A coordinate formula that sends a value halfway between two levels to
\* the upper one.
CubeCoordHalfUp(v) ==
    LET n == CDiv(v - 35, 40) IN
    IF n = 0 THEN CDiv(v + 47, 95) ELSE n

\* The coordinate formula with floor division.
CubeCoordFloor(v) ==
    LET n == FloorDiv(v - 36, 40) IN
    IF n = 0 THEN FloorDiv(v + 47, 95) ELSE n

\* nr = (r-36)/40; if (nr == 0) nr = (r+47)/95;
CubeCoord(v) ==
    LET n == CDiv(v - 36, 40) IN
    IF n = 0 THEN CDiv(v + 47, 95) ELSE n

\* nearest_static = 16 + nb + ng * 6 + nr * 36;
CubeIndex(xr, xg, xb) == 16 + xb + xg * 6 + xr * 36

\* The grey test with the three comparisons joined by "or".
IsGreyAnyPair(ar, ag, ab, xr, xg, xb) ==
    \/ (Abs(ar - ag) < 20 \/ Abs(ag - ab) < 20 \/ Abs(ab - ar) < 20)
    \/ (xr = xg /\ xg = xb)

\* if ( (abs(r-g)<20 && abs(g-b)<20 && abs(b-r)<20 ) || (nr==ng && ng==nb))
IsGrey(ar, ag, ab, xr, xg, xb) ==
    \/ (Abs(ar - ag) < 20 /\ Abs(ag - ab) < 20 /\ Abs(ab - ar) < 20)
    \/ (xr = xg /\ xg = xb)

\* tw = (r+g+b)/3;
GreyTw(ar, ag, ab) == CDiv(ar + ag + ab, 3)

\* The grayscale candidate without the clamp.
GreyNwUnclamped(tw) == 232 + CDiv(tw - 4, 10)

\* nw = 232 + (tw-4)/10; if (nw > 255) nw = 255;
GreyNw(tw) ==
    LET n == 232 + CDiv(tw - 4, 10) IN
    IF n > 255 THEN 255 ELSE n

\* The brightness proxy as the mean of the three cube components.
GreyTcSummed(xr, xg, xb) ==
    CDiv(CubeComp(xr) + CubeComp(xg) + CubeComp(xb), 3)

\* tc = nr ? ..; tc = ng ? ..; tc = nb ? nb * 40 + 55 : 0; tc /= 3;
\* each assignment overwrites the one before it.
GreyTc(xr, xg, xb) ==
    LET t1 == CubeComp(xr)
        t2 == CubeComp(xg)
        t3 == CubeComp(xb)
    IN  CDiv(t3, 3)

\* tg = (nw-232) * 10 + 8;
GreyTg(nw) == (nw - 232) * 10 + 8

\* A comparison that keeps the cube colour on a tie.
GreyWinsStrict(tc, tg, tw) ==
    (tc - tw) * (tc - tw) > (tg - tw) * (tg - tw)

\* if ( (tc-tw)*(tc-tw) >= (tg-tw)*(tg-tw) ) nearest_static = nw;
GreyWins(tc, tg, tw) ==
    (tc - tw) * (tc - tw) >= (tg - tw) * (tg - tw)

NoGrey == [taken |-> FALSE, tw |-> 0, nw |-> 0, tc |-> 0, tg |-> 0]

\* The locals of the grey block for one call.
GreyLocals(ar, ag, ab, xr, xg, xb) ==
    IF IsGrey(ar, ag, ab, xr, xg, xb)
    THEN LET tw == GreyTw(ar, ag, ab)
             nw == GreyNw(tw)
         IN  [taken |-> TRUE, tw |-> tw, nw |-> nw,
              tc |-> GreyTc(xr, xg, xb), tg |-> GreyTg(nw)]
    ELSE NoGrey

\* The value PuTTY_256 returns.
AnalyticResult(xr, xg, xb, gl) ==
    IF gl.taken /\ GreyWins(gl.tc, gl.tg, gl.tw)
    THEN gl.nw
    ELSE CubeIndex(xr, xg, xb)

----------------------------------------------------------------------------
(* Binary floating point.  A float is [m, e], the number m / 2^e with     *)
(* 2^23 <= m < 2^24 (or m = 0); a double is [hi, lo, e], the number       *)
(* (hi * 2^29 + lo) / 2^(e+29) with 2^23 <= hi < 2^24 and 0 <= lo < 2^29, *)
(* so that a float widens to the double of the same hi and e with lo = 0. *)

FloatZero == [m |-> 0, e |-> 0]

\* k more bits of a quotient by d: y.lo gets the next k bits of y.rm / d and
\* y.rm becomes the remainder after them (k <= 10 and y.rm < d < 2^20).
MoreBits(y, d, k) ==
    [lo |-> y.lo * 2^k + (y.rm * 2^k) \div d, rm |-> (y.rm * 2^k) % d]

\* The i-th part of s bits taken ten at a time.
Chunk(s, i) ==
    IF s >= 10 * i THEN 10 ELSE IF s > 10 * (i - 1) THEN s - 10 * (i - 1) ELSE 0

\* s more bits, s < 30.
MoreBits30(y, d, s) ==
    MoreBits(MoreBits(MoreBits(y, d, Chunk(s, 1)), d, Chunk(s, 2)),
             d, Chunk(s, 3))

\* The number of bits q > 0 lacks to have 24 significant bits.
Lacking(q) == CHOOSE i \in 0 .. 23 : q \div 2^(23 - i) = 1

\* A quotient with its exponent.
Quotient(y, e) == [q |-> y.lo, rm |-> y.rm, e |-> e]

\* y.lo (> 0) developed by s more bits.
Developed(y, d, e, s) == Quotient(MoreBits30(y, d, s), e + s)

\* The quotient n/d developed until it has 24 significant bits:
\* q / 2^e <= n/d with remainder rm / (d * 2^e), 0 <= rm < d.
RECURSIVE Normalise(_, _, _)
Normalise(y, d, e) ==
    IF y.lo = 0
    THEN Normalise(MoreBits(y, d, 1), d, e + 1)
    ELSE Developed(y, d, e, Lacking(y.lo))

\* n/d as the quotient and the remainder of the integer division.
Divided(n, d) == [lo |-> n \div d, rm |-> n % d]

\* Round to nearest, ties to even: is the last kept bit to be raised?
RoundsUp(last, rm, d) == 2 * rm > d \/ (2 * rm = d /\ last % 2 = 1)

\* The float of significand m, raised by one unit in the last place if up.
FloatRaised(m, up, e) ==
    IF ~up THEN [m |-> m, e |-> e]
    ELSE IF m + 1 = 2^24 THEN [m |-> 2^23, e |-> e - 1]
                         ELSE [m |-> m + 1, e |-> e]

\* The float of a developed quotient.
FloatOf(x, d) == FloatRaised(x.q, RoundsUp(x.q, x.rm, d), x.e)

\* The binary32 value nearest to n/d (0 <= n/d < 2^24, 0 < d < 2^15): a
\* double converted to float, or the quotient of two floats.
ToFloat(n, d) ==
    IF n = 0 THEN FloatZero ELSE FloatOf(Normalise(Divided(n, d), d, 0), d)

\* The double of significand hi * 2^29 + lo, raised by one unit in the last
\* place if up.
DoubleRaised(hi, lo, up, e) ==
    IF ~up THEN [hi |-> hi, lo |-> lo, e |-> e]
    ELSE IF lo + 1 < 2^29 THEN [hi |-> hi, lo |-> lo + 1, e |-> e]
    ELSE IF hi + 1 < 2^24 THEN [hi |-> hi + 1, lo |-> 0, e |-> e]
    ELSE [hi |-> 2^23, lo |-> 0, e |-> e - 1]

\* The double of a developed quotient x and the 29 bits y after it.
DoubleOf(x, y, d) == DoubleRaised(x.q, y.lo, RoundsUp(y.lo, y.rm, d), x.e)

\* The 29 bits after a developed quotient.
LowBits(x, d) == MoreBits30([lo |-> 0, rm |-> x.rm], d, 29)

\* The double of a developed quotient.
DoubleFrom(x, d) == DoubleOf(x, LowBits(x, d), d)

\* The binary64 value nearest to n/d: a decimal constant of the source.
ToDouble(n, d) ==
    IF n = 0 THEN [hi |-> 0, lo |-> 0, e |-> 0]
    ELSE DoubleFrom(Normalise(Divided(n, d), d, 0), d)

\* A float assigned to a double: the same number.
Widen(f) == [hi |-> f.m, lo |-> 0, e |-> f.e]

\* roundf of a float f >= 0 with f.e >= 0: the nearest integer, halves away
\* from zero.
RoundF(f) ==
    IF f.e = 0 THEN f.m ELSE (f.m + 2^(f.e - 1)) \div 2^(f.e)

----------------------------------------------------------------------------
(* Exact arithmetic on doubles.  The exact result of an operation is kept  *)
(* as [neg, mag, E], the number (-1)^neg * mag / 2^E, with mag a natural   *)
(* number written in limbs of 15 bits, least significant first; RoundBig   *)
(* rounds it to the nearest double, ties to even, as each operation of the *)
(* machine does.  A signed double is [neg, hi, lo, e].                     *)

Limb == 2^15

\* The element of a set of one element.  In Only({e : v \in {d}}) the value
\* of d is computed once, as a statement of the code stores the value of its
\* right-hand side, and e is computed from that value.
Only(S) == CHOOSE el \in S : TRUE

\* The significand hi * 2^29 + lo of a double, in limbs.
BigOf(d) ==
    <<d.lo % Limb, (d.lo \div Limb) + (d.hi % 2) * 2^14,
      (d.hi \div 2) % Limb, d.hi \div 2^16>>

BigIsZero(u) == \A i \in 1 .. Len(u) : u[i] = 0

\* u with zero limbs added up to n limbs.
Pad(u, n) == u \o [i \in 1 .. (n - Len(u)) |-> 0]

\* u * k + carry, for 0 <= k, carry < 2^15.
RECURSIVE BigMulSmall(_, _, _)
BigMulSmall(u, k, carry) ==
    IF u = <<>>
    THEN IF carry = 0 THEN <<>> ELSE <<carry>>
    ELSE LET t == Head(u) * k + carry
         IN  <<t % Limb>> \o BigMulSmall(Tail(u), k, t \div Limb)

\* u * 2^n: whole limbs of zeros below u * 2^(n % 15).
BigShl(u, n) ==
    [i \in 1 .. (n \div 15) |-> 0] \o BigMulSmall(u, 2^(n % 15), 0)

\* u + v + carry, u and v of the same length.
RECURSIVE BigAdd(_, _, _)
BigAdd(u, v, carry) ==
    IF u = <<>>
    THEN IF carry = 0 THEN <<>> ELSE <<carry>>
    ELSE LET t == Head(u) + Head(v) + carry
         IN  <<t % Limb>> \o BigAdd(Tail(u), Tail(v), t \div Limb)

\* u - v - borrow, u and v of the same length and u >= v + borrow.
RECURSIVE BigSub(_, _, _)
BigSub(u, v, borrow) ==
    IF u = <<>> THEN <<>>
    ELSE LET t == Head(u) - Head(v) - borrow
         IN  IF t < 0 THEN <<t + Limb>> \o BigSub(Tail(u), Tail(v), 1)
                      ELSE <<t>> \o BigSub(Tail(u), Tail(v), 0)

\* u < v, u and v of the same length.
BigLess(u, v) ==
    \E i \in 1 .. Len(u) :
        u[i] < v[i] /\ \A j \in (i + 1) .. Len(u) : u[j] = v[j]

\* Bit i of u (bit 0 is the least significant; 0 outside u).
BigBit(u, i) ==
    IF i < 0 \/ i >= 15 * Len(u) THEN 0
    ELSE (u[(i \div 15) + 1] \div 2^(i % 15)) % 2

\* The number of bits of u: one more than the index of its highest 1 bit.
BitLength(u) ==
    LET S == {i \in 0 .. (15 * Len(u) - 1) : BigBit(u, i) = 1}
    IN  IF S = {} THEN 0 ELSE 1 + CHOOSE i \in S : \A j \in S : j <= i

\* The n bits of u from bit top downwards, as a number.
RECURSIVE BitsFrom(_, _, _)
BitsFrom(u, top, n) ==
    IF n = 0 THEN 0
    ELSE IF n = 1 THEN BigBit(u, top)
    ELSE LET h == n \div 2
         IN  2^h * BitsFrom(u, top, n - h) + BitsFrom(u, top - (n - h), h)

\* Is u, of n bits, raised when it is rounded to 53 bits?  The bit after
\* them is 1 and either a bit below it or the last kept bit is.
BigRoundsUp(u, n) ==
    /\ BigBit(u, n - 54) = 1
    /\ \/ \E i \in 0 .. (n - 55) : BigBit(u, i) = 1
       \/ BigBit(u, n - 53) = 1

\* u / 2^E for u of n bits, rounded.
RoundBits(u, E, n) ==
    DoubleRaised(BitsFrom(u, n - 1, 24), BitsFrom(u, n - 25, 29),
                 BigRoundsUp(u, n), E - n + 24)

\* mag / 2^E rounded to the nearest double, ties to even (mag # 0).
RoundBig(u, E) == RoundBits(u, E, BitLength(u))

\* A double with its sign.
Signed(neg, d) == [neg |-> neg, hi |-> d.hi, lo |-> d.lo, e |-> d.e]

DZero == Signed(FALSE, ToDouble(0, 1))

DOne == Signed(FALSE, ToDouble(1, 1))

\* The exact value of a signed double.
Exact(x) == [neg |-> x.neg, mag |-> BigOf(x), E |-> x.e + 29]

\* The exact value of the integer constant k, -2^15 < k < 2^15.
ExactInt(k) == [neg |-> k < 0, mag |-> <<Abs(k)>>, E |-> 0]

\* The larger of two numbers.
Max(i, j) == IF i > j THEN i ELSE j

\* xm + ym or the difference of the two, xm and ym of the same length, with
\* the signs xn and yn.
AddMags(xn, xm, yn, ym, E) ==
    IF xn = yn
    THEN [neg |-> xn, mag |-> BigAdd(xm, ym, 0), E |-> E]
    ELSE IF BigLess(xm, ym)
         THEN [neg |-> yn, mag |-> BigSub(ym, xm, 0), E |-> E]
         ELSE IF BigLess(ym, xm)
              THEN [neg |-> xn, mag |-> BigSub(xm, ym, 0), E |-> E]
              ELSE [neg |-> FALSE, mag |-> <<0>>, E |-> 0]

\* The same for xs and ys of any lengths.
AddPadded(xn, xs, yn, ys, E) ==
    AddMags(xn, Pad(xs, Max(Len(xs), Len(ys))),
            yn, Pad(ys, Max(Len(xs), Len(ys))), E)

\* x + y with both brought to the exponent E.
AddAligned(x, y, E) ==
    Only({AddPadded(x.neg, xs, y.neg, ys, E) :
              xs \in {BigShl(x.mag, E - x.E)}, ys \in {BigShl(y.mag, E - y.E)}})

\* x + y, exactly.
ExAdd(x, y) ==
    Only({AddAligned(sx, sy, Max(sx.E, sy.E)) : sx \in {x}, sy \in {y}})

\* x - y, exactly.
ExSub(x, y) == ExAdd(x, [y EXCEPT !.neg = ~y.neg])

\* k * x for the integer constant k, 0 < k < 2^15, exactly.
ExMulInt(k, x) ==
    [neg |-> x.neg, mag |-> BigMulSmall(x.mag, k, 0), E |-> x.E]

\* The double an exact result is rounded to.
DRound(x) ==
    Only({IF BigIsZero(ex.mag)
          THEN [DZero EXCEPT !.neg = ex.neg]
          ELSE Signed(ex.neg, RoundBig(ex.mag, ex.E)) : ex \in {x}})

\* d > 0
Positive(d) == ~d.neg /\ ~BigIsZero(d.mag)

\* u > v for doubles u, v >= 0
DGreater(u, v) == Positive(ExSub(Exact(u), Exact(v)))

\* u + v, u and v of any lengths.
BigSum(u, v) ==
    BigAdd(Pad(u, Max(Len(u), Len(v))), Pad(v, Max(Len(u), Len(v))), 0)

\* u * v
RECURSIVE BigMul(_, _)
BigMul(u, v) ==
    IF v = <<>> THEN <<0>>
    ELSE Only({BigSum(BigMulSmall(u, Head(v), 0), <<0>> \o high) :
                   high \in {BigMul(u, Tail(v))}})

\* x * y, exactly.
ExMul(x, y) ==
    Only({[neg |-> sx.neg # sy.neg, mag |-> BigMul(sx.mag, sy.mag),
           E |-> sx.E + sy.E] : sx \in {x}, sy \in {y}})

\* p + q where p is a product: the product is rounded to double before the
\* addition, unless the compiler contracts the two operations into one
\* fused multiply-add, which rounds once.
MulAdd(contract, p, q) ==
    IF contract THEN DRound(ExAdd(p, q))
                ELSE DRound(ExAdd(Exact(DRound(p)), q))

----------------------------------------------------------------------------
(* sRGB_to_xyz, on the channel values whose gamma decoding is exact.       *)

\* R = cR/255.0; the gamma decoding; R *= 100.  For cR = 255 the power
\* branch gives pow(1.0, 2.4) = 1 and for cR = 0 the linear branch 0/12.92.
Gamma100(v) == IF v = 255 THEN 100 ELSE 0

\* The rows of the matrix, in units of 10^-7.
RowX == <<4124564, 3575761, 1804375>>
RowY == <<2126729, 7151522, 721750>>
RowZ == <<193339, 1191920, 9503041>>

\* X * 10000 as the fraction n / 1000: the products and sums are those of
\* the doubles up to a relative error of 2^-50, far below the spacing 2^-4
\* of the floats the value is then converted to.
Times10000(row, ar, ag, ab) ==
    Gamma100(ar) * row[1] + Gamma100(ag) * row[2] + Gamma100(ab) * row[3]

\* The rounding done in double, as round() and a double division would.
Round4DPDouble(n) ==
    LET k == (n + 500) \div 1000 IN ToDouble(k, 10000)

\* X = roundf(X * 10000) / 10000: the argument is converted to float,
\* roundf returns a float and the division by the int 10000 is a float
\* division; the float quotient is then stored in the double X.
Round4DP(n) ==
    LET k == RoundF(ToFloat(n, 1000)) IN Widen(ToFloat(k, 10000))

\* The struct sRGB_to_xyz returns.
SRGBToXyz(ar, ag, ab) ==
    [X |-> Round4DP(Times10000(RowX, ar, ag, ab)),
     Y |-> Round4DP(Times10000(RowY, ar, ag, ab)),
     Z |-> Round4DP(Times10000(RowZ, ar, ag, ab))]

\* double ref_X = 95.047, ref_Y = 100.000, ref_Z = 108.883 of xyz_to_lab.
RefWhite ==
    [X |-> ToDouble(95047, 1000), Y |-> ToDouble(100000, 1000),
     Z |-> ToDouble(108883, 1000)]

----------------------------------------------------------------------------
(* xyz_to_lab, on the structs whose three quotients by the reference white *)
(* are exact: each of X, Y, Z is 0 or the reference white's value.         *)

\* A decimal constant of the source, n/d >= 0.
Const(n, d) == Signed(FALSE, ToDouble(n, d))

\* The constants 0.008856, 7.787 and 16.0 / 116.0 (a quotient of two
\* constants, which the compiler rounds once).
Threshold == Const(8856, 1000000)

Slope == Const(7787, 1000)

Offset == Const(16, 116)

\* double Y = c.Y / ref_Y: 0 / ref is 0 and ref / ref is 1.
Ratio(v, ref) == IF v.hi = 0 THEN DZero ELSE DOne

\* The linear branch without its constant term.
LabLinearNoOffset(x, contract) == DRound(ExMul(Exact(Slope), Exact(x)))

\* X = ( 7.787 * X ) + ( 16.0 / 116.0 )
LabLinear(x, contract) ==
    Only({MulAdd(contract, prod, Exact(Offset)) :
              prod \in {ExMul(Exact(Slope), Exact(x))}})

\* if ( X > 0.008856 ) X = pow(X, 1.0/3.0); else the linear branch.  The only
\* argument of pow here is 1, and pow(1, y) is 1 for every y.
LabF(x, contract) ==
    IF DGreater(x, Threshold) THEN DOne ELSE LabLinear(x, contract)

\* L, a and b from the three values the branches leave in X, Y and Z.
LabOf(fx, fy, fz, fused) ==
    Only({[L |-> MulAdd(fused, ExMulInt(116, Exact(fy)), ExactInt(-16)),
           a |-> DRound(ExMulInt(500, Exact(dxy))),
           b |-> DRound(ExMulInt(200, Exact(dyz)))] :
              dxy \in {DRound(ExSub(Exact(fx), Exact(fy)))},
              dyz \in {DRound(ExSub(Exact(fy), Exact(fz)))}})

\* The struct xyz_to_lab returns.  fused says whether the build contracts a
\* product and the addition that follows it into one operation.
XyzToLab(col, fused) ==
    Only({LabOf(fx, fy, fz, fused) :
              fx \in {LabF(Ratio(col.X, RefWhite.X), fused)},
              fy \in {LabF(Ratio(col.Y, RefWhite.Y), fused)},
              fz \in {LabF(Ratio(col.Z, RefWhite.Z), fused)}})

----------------------------------------------------------------------------
(* deltaE2000: its hue arithmetic, and which of its differences are 0.     *)
(*                                                                         *)
(* The arguments are Lab triples <<L, a, b>> of small integers; the b of   *)
(* the sample can lie off its integer by a rounding error (skew).          *)
(* Magnitudes are not evaluated: of dL, dC and *delta_e the model records  *)
(* whether the double is 0 (0) or not (1), and of dH its sign.  The hues   *)
(* and the two quantities computed from them by comparisons with pi, dhp   *)
(* and hp, are evaluated on an integer scale of angles.                    *)

\* The double locals whose standard and sample twins go through the same
\* operations.  A build for the SSE2 or a similar unit rounds every one of
\* them to double; a build for the x87 unit keeps a local in a register of
\* 64 significant bits until the register is needed, and so can round one
\* twin to double and not the other.
ExtendedLocals == {"Cpstd", "Cpsample", "hpstd", "hpsample"}

LabGrid == (0 .. LabMax) \X (-LabMax .. LabMax) \X (-LabMax .. LabMax)

\* t and u have the same |a| and |b|.
Mirror(t, u) == Abs(u[2]) = Abs(t[2]) /\ Abs(u[3]) = Abs(t[3])

Mirrors(t) == {u \in LabGrid : Mirror(t, u)}

\* The angle between the hues of two different directions of the grid is
\* at least HueStep units.
HueStep == 4

\* A rounding error of a hue is at most MaxErr units.
MaxErr == 1

RECURSIVE Factorial(_)
Factorial(n) == IF n <= 1 THEN 1 ELSE n * Factorial(n - 1)

\* pi/2 in units of the scale of angles.  The scale is monotone in the
\* angle and takes opposite directions exactly a half turn apart, which is
\* all that a comparison of a difference of hues with pi depends on.
QuarterTurn == HueStep * Factorial(2 * LabMax)

\* #define pi
HalfTurn == 2 * QuarterTurn

\* 2.0*pi
FullTurn == 2 * HalfTurn

\* Cab = sqrt(a*a + b*b), ap = (1.0+G)*a with 1.0+G in [1, 1.5] and
\* Cp = sqrt(ap*ap + b*b) are 0 exactly when a and b are.
Achromatic(t) == t[2] = 0 /\ t[3] = 0

\* Cp is the same number at every precision: with a = 0, ap is 0 and Cp is
\* sqrt(b*b) = |b|.  Otherwise (1.0+G)*a and the square root are rounded.
CpExact(t) == t[2] = 0

\* One of the twins x, y is kept wide and the other is rounded to double.
RoundedApart(x, y, w) == (x \in w) # (y \in w)

\* The skews a sample can have: without chroma a and b are 0 exactly.
Skews(t) == IF Achromatic(t) THEN {0} ELSE -MaxErr .. MaxErr

\* atan2(b, ap), plus 2.0*pi when negative, before rounding: the direction
\* of (ap, b) in 0 .. FullTurn - 1, which is 0 for b = 0 and ap >= 0.  The
\* factor 1.0+G is the same for both arguments and keeps the quadrants, the
\* order of the directions and which directions are opposite.
Hue(t) ==
    LET x == t[2]
        y == t[3]
    IN  IF x > 0 /\ y >= 0 THEN (QuarterTurn * y) \div (x + y)
        ELSE IF x <= 0 /\ y > 0
            THEN QuarterTurn + (QuarterTurn * (-x)) \div (y - x)
        ELSE IF x < 0 /\ y <= 0
            THEN 2 * QuarterTurn + (QuarterTurn * (-y)) \div (-x - y)
        ELSE IF x >= 0 /\ y < 0
            THEN 3 * QuarterTurn + (QuarterTurn * x) \div (x - y)
        ELSE 0

\* The hue of a triple whose b is k rounding errors off its integer.
SkewedHue(t, k) == (Hue(t) + k) % FullTurn

\* What rounding to double can add to the hue h: nothing to the angle 0.
RoundingErrors(h) == IF h = 0 THEN {0} ELSE -MaxErr .. MaxErr

\* The value of the hue local x: the hue h, rounded to double (by e) unless
\* the build keeps x wide.
Held(x, h, e, w) == IF x \in w THEN h ELSE h + e

\* hpstd
Hpstd(h, e, w) == Held("hpstd", h, e, w)

\* The test with != for ==.
HasChroma(t) == ~Achromatic(t)

\* (fabs(apsample)+fabs(bsample))==0.0
NoChroma(t) == Achromatic(t)

\* hpsample, with hpsample= 0.0 when the sample has no chroma
Hpsample(h, e, w, sample) ==
    IF NoChroma(sample) THEN 0 ELSE Held("hpsample", h, e, w)

\* Cpprod == 0.0
CpprodZero(std, sample) == Achromatic(std) \/ Achromatic(sample)

\* dL = (Lsample-Lstd): both are read from the arrays.
DL(std, sample) == IF sample[1] = std[1] THEN 0 ELSE 1

\* dC = (Cpsample-Cpstd), as the set of what it can be.  With different
\* |a| or |b| the chromas differ.  With the same they are the same number
\* before rounding, and differ only if one is rounded to double and the
\* other is not, or if b is skewed: then they differ for a = 0, where Cp is
\* |b|, and can differ otherwise.
DC(std, sample, k, w) ==
    IF ~Mirror(std, sample) THEN {1}
    ELSE IF CpExact(std) THEN (IF k = 0 THEN {0} ELSE {1})
    ELSE IF k # 0 \/ RoundedApart("Cpstd", "Cpsample", w) THEN {0, 1}
    ELSE {0}

\* dhp without the second of its two corrections.
DhpOneSided(hs, ht, cpz) ==
    LET d0 == ht - hs
    IN  IF cpz THEN 0
        ELSE IF d0 > HalfTurn THEN d0 - FullTurn ELSE d0

\* dhp = (hpsample-hpstd); if (dhp>pi) dhp-= 2.0*pi;
\* if (dhp<-pi) dhp+= 2.0*pi; if (Cpprod == 0.0) dhp= 0.0;
Dhp(hs, ht, cpz) ==
    LET d0 == ht - hs
        d1 == IF d0 > HalfTurn THEN d0 - FullTurn ELSE d0
        d2 == IF d1 < -HalfTurn THEN d1 + FullTurn ELSE d1
    IN  IF cpz THEN 0 ELSE d2

\* dH = 2.0*sqrt(Cpprod)*sin(dhp/2.0), with |dhp/2| <= pi/2: its sign.
DH(dhp, cpz) ==
    IF cpz \/ dhp = 0 THEN 0 ELSE IF dhp < 0 THEN -1 ELSE 1

\* Twice hp: hp = (hpstd+hpsample)/2.0;
\* if (fabs(hpstd-hpsample) > pi) hp-= pi; if (hp<0) hp+= 2.0*pi;
\* if (Cpprod==0.0) hp= hpsample+hpstd;
TwiceHp(hs, ht, cpz) ==
    LET s0 == hs + ht
        s1 == IF Abs(hs - ht) > HalfTurn THEN s0 - FullTurn ELSE s0
        s2 == IF s1 < 0 THEN s1 + 2 * FullTurn ELSE s1
    IN  IF cpz THEN 2 * (ht + hs) ELSE s2

\* *delta_e = sqrt(pow(dL/Sl, 2) + pow(dC/Sc, 2) + pow(dH/Sh, 2)
\*                  + RT*(dC/Sc)*(dH/Sh)): Sl, Sc and Sh are finite and at
\* least 1, and |RT| < 2, so the sum is 0 when the three differences are
\* and positive otherwise.
DeltaE2000(dl, dc, dh) == IF dl = 0 /\ dc = 0 /\ dh = 0 THEN 0 ELSE 1

----------------------------------------------------------------------------
(* choose_XTterm256, the perceptual matcher.                               *)

\* The colour of index c as choose_XTterm256's loop decodes it.
ChoosePaletteRgb(k) ==
    LET i == k - 16 IN
    IF k < 232
    THEN <<CubeComp(i \div 36), CubeComp((i \div 6) % 6), CubeComp(i % 6)>>
    ELSE LET j == i - 216 IN <<j * 10 + 8, j * 10 + 8, j * 10 + 8>>

\* The values rgbCIEDE2000 can return, in units of 1 / (10000 * DESub).
\* The two colours go through the same conversions, so equal colours give
\* equal Lab triples, for which deltaE2000 stores 0 or, where the build
\* rounds one of two twin locals and not the other, a rounding error: a
\* value below 1/10000.  For different colours the floating-point pipeline
\* is not computed here: the result is any non-negative value of the grid.
RgbCIEDE2000(std, sam) == IF std = sam THEN 0 .. DESub - 1 ELSE 0 .. MaxDE

\* this_diff = 10000 * rgbCIEDE2000(...): the double product converted to
\* int, which discards the fraction.
ToThisDiff(d) == d \div DESub

----------------------------------------------------------------------------
(* wcwidth.c: mk_wcwidth and its tables.                                   *)

\* static const struct interval combining[]: the sorted list of intervals of
\* non-spacing characters (Mn, Me and Cf), in the order of the source.
combining == <<
    <<\H00ad, \H00ad>>,
    <<\H0300, \H036f>>,
    <<\H0483, \H0489>>,
    <<\H0591, \H05bd>>,
    <<\H05bf, \H05bf>>,
    <<\H05c1, \H05c2>>,
    <<\H05c4, \H05c5>>,
    <<\H05c7, \H05c7>>,
    <<\H0600, \H0605>>,
    <<\H0610, \H061a>>,
    <<\H061c, \H061c>>,
    <<\H064b, \H065f>>,
    <<\H0670, \H0670>>,
    <<\H06d6, \H06dd>>,
    <<\H06df, \H06e4>>,
    <<\H06e7, \H06e8>>,
    <<\H06ea, \H06ed>>,
    <<\H070f, \H070f>>,
    <<\H0711, \H0711>>,
    <<\H0730, \H074a>>,
    <<\H07a6, \H07b0>>,
    <<\H07eb, \H07f3>>,
    <<\H0816, \H0819>>,
    <<\H081b, \H0823>>,
    <<\H0825, \H0827>>,
    <<\H0829, \H082d>>,
    <<\H0859, \H085b>>,
    <<\H08d4, \H0902>>,
    <<\H093a, \H093a>>,
    <<\H093c, \H093c>>,
    <<\H0941, \H0948>>,
    <<\H094d, \H094d>>,
    <<\H0951, \H0957>>,
    <<\H0962, \H0963>>,
    <<\H0981, \H0981>>,
    <<\H09bc, \H09bc>>,
    <<\H09c1, \H09c4>>,
    <<\H09cd, \H09cd>>,
    <<\H09e2, \H09e3>>,
    <<\H0a01, \H0a02>>,
    <<\H0a3c, \H0a3c>>,
    <<\H0a41, \H0a42>>,
    <<\H0a47, \H0a48>>,
    <<\H0a4b, \H0a4d>>,
    <<\H0a51, \H0a51>>,
    <<\H0a70, \H0a71>>,
    <<\H0a75, \H0a75>>,
    <<\H0a81, \H0a82>>,
    <<\H0abc, \H0abc>>,
    <<\H0ac1, \H0ac5>>,
    <<\H0ac7, \H0ac8>>,
    <<\H0acd, \H0acd>>,
    <<\H0ae2, \H0ae3>>,
    <<\H0afa, \H0aff>>,
    <<\H0b01, \H0b01>>,
    <<\H0b3c, \H0b3c>>,
    <<\H0b3f, \H0b3f>>,
    <<\H0b41, \H0b44>>,
    <<\H0b4d, \H0b4d>>,
    <<\H0b56, \H0b56>>,
    <<\H0b62, \H0b63>>,
    <<\H0b82, \H0b82>>,
    <<\H0bc0, \H0bc0>>,
    <<\H0bcd, \H0bcd>>,
    <<\H0c00, \H0c00>>,
    <<\H0c3e, \H0c40>>,
    <<\H0c46, \H0c48>>,
    <<\H0c4a, \H0c4d>>,
    <<\H0c55, \H0c56>>,
    <<\H0c62, \H0c63>>,
    <<\H0c81, \H0c81>>,
    <<\H0cbc, \H0cbc>>,
    <<\H0cbf, \H0cbf>>,
    <<\H0cc6, \H0cc6>>,
    <<\H0ccc, \H0ccd>>,
    <<\H0ce2, \H0ce3>>,
    <<\H0d00, \H0d01>>,
    <<\H0d3b, \H0d3c>>,
    <<\H0d41, \H0d44>>,
    <<\H0d4d, \H0d4d>>,
    <<\H0d62, \H0d63>>,
    <<\H0dca, \H0dca>>,
    <<\H0dd2, \H0dd4>>,
    <<\H0dd6, \H0dd6>>,
    <<\H0e31, \H0e31>>,
    <<\H0e34, \H0e3a>>,
    <<\H0e47, \H0e4e>>,
    <<\H0eb1, \H0eb1>>,
    <<\H0eb4, \H0eb9>>,
    <<\H0ebb, \H0ebc>>,
    <<\H0ec8, \H0ecd>>,
    <<\H0f18, \H0f19>>,
    <<\H0f35, \H0f35>>,
    <<\H0f37, \H0f37>>,
    <<\H0f39, \H0f39>>,
    <<\H0f71, \H0f7e>>,
    <<\H0f80, \H0f84>>,
    <<\H0f86, \H0f87>>,
    <<\H0f8d, \H0f97>>,
    <<\H0f99, \H0fbc>>,
    <<\H0fc6, \H0fc6>>,
    <<\H102d, \H1030>>,
    <<\H1032, \H1037>>,
    <<\H1039, \H103a>>,
    <<\H103d, \H103e>>,
    <<\H1058, \H1059>>,
    <<\H105e, \H1060>>,
    <<\H1071, \H1074>>,
    <<\H1082, \H1082>>,
    <<\H1085, \H1086>>,
    <<\H108d, \H108d>>,
    <<\H109d, \H109d>>,
    <<\H135d, \H135f>>,
    <<\H1712, \H1714>>,
    <<\H1732, \H1734>>,
    <<\H1752, \H1753>>,
    <<\H1772, \H1773>>,
    <<\H17b4, \H17b5>>,
    <<\H17b7, \H17bd>>,
    <<\H17c6, \H17c6>>,
    <<\H17c9, \H17d3>>,
    <<\H17dd, \H17dd>>,
    <<\H180b, \H180e>>,
    <<\H1885, \H1886>>,
    <<\H18a9, \H18a9>>,
    <<\H1920, \H1922>>,
    <<\H1927, \H1928>>,
    <<\H1932, \H1932>>,
    <<\H1939, \H193b>>,
    <<\H1a17, \H1a18>>,
    <<\H1a1b, \H1a1b>>,
    <<\H1a56, \H1a56>>,
    <<\H1a58, \H1a5e>>,
    <<\H1a60, \H1a60>>,
    <<\H1a62, \H1a62>>,
    <<\H1a65, \H1a6c>>,
    <<\H1a73, \H1a7c>>,
    <<\H1a7f, \H1a7f>>,
    <<\H1ab0, \H1abe>>,
    <<\H1b00, \H1b03>>,
    <<\H1b34, \H1b34>>,
    <<\H1b36, \H1b3a>>,
    <<\H1b3c, \H1b3c>>,
    <<\H1b42, \H1b42>>,
    <<\H1b6b, \H1b73>>,
    <<\H1b80, \H1b81>>,
    <<\H1ba2, \H1ba5>>,
    <<\H1ba8, \H1ba9>>,
    <<\H1bab, \H1bad>>,
    <<\H1be6, \H1be6>>,
    <<\H1be8, \H1be9>>,
    <<\H1bed, \H1bed>>,
    <<\H1bef, \H1bf1>>,
    <<\H1c2c, \H1c33>>,
    <<\H1c36, \H1c37>>,
    <<\H1cd0, \H1cd2>>,
    <<\H1cd4, \H1ce0>>,
    <<\H1ce2, \H1ce8>>,
    <<\H1ced, \H1ced>>,
    <<\H1cf4, \H1cf4>>,
    <<\H1cf8, \H1cf9>>,
    <<\H1dc0, \H1df9>>,
    <<\H1dfb, \H1dff>>,
    <<\H200b, \H200f>>,
    <<\H202a, \H202e>>,
    <<\H2060, \H2064>>,
    <<\H2066, \H206f>>,
    <<\H20d0, \H20f0>>,
    <<\H2cef, \H2cf1>>,
    <<\H2d7f, \H2d7f>>,
    <<\H2de0, \H2dff>>,
    <<\H302a, \H302d>>,
    <<\H3099, \H309a>>,
    <<\Ha66f, \Ha672>>,
    <<\Ha674, \Ha67d>>,
    <<\Ha69e, \Ha69f>>,
    <<\Ha6f0, \Ha6f1>>,
    <<\Ha802, \Ha802>>,
    <<\Ha806, \Ha806>>,
    <<\Ha80b, \Ha80b>>,
    <<\Ha825, \Ha826>>,
    <<\Ha8c4, \Ha8c5>>,
    <<\Ha8e0, \Ha8f1>>,
    <<\Ha926, \Ha92d>>,
    <<\Ha947, \Ha951>>,
    <<\Ha980, \Ha982>>,
    <<\Ha9b3, \Ha9b3>>,
    <<\Ha9b6, \Ha9b9>>,
    <<\Ha9bc, \Ha9bc>>,
    <<\Ha9e5, \Ha9e5>>,
    <<\Haa29, \Haa2e>>,
    <<\Haa31, \Haa32>>,
    <<\Haa35, \Haa36>>,
    <<\Haa43, \Haa43>>,
    <<\Haa4c, \Haa4c>>,
    <<\Haa7c, \Haa7c>>,
    <<\Haab0, \Haab0>>,
    <<\Haab2, \Haab4>>,
    <<\Haab7, \Haab8>>,
    <<\Haabe, \Haabf>>,
    <<\Haac1, \Haac1>>,
    <<\Haaec, \Haaed>>,
    <<\Haaf6, \Haaf6>>,
    <<\Habe5, \Habe5>>,
    <<\Habe8, \Habe8>>,
    <<\Habed, \Habed>>,
    <<\Hfb1e, \Hfb1e>>,
    <<\Hfe00, \Hfe0f>>,
    <<\Hfe20, \Hfe2f>>,
    <<\Hfeff, \Hfeff>>,
    <<\Hfff9, \Hfffb>>,
    <<\H101fd, \H101fd>>,
    <<\H102e0, \H102e0>>,
    <<\H10376, \H1037a>>,
    <<\H10a01, \H10a03>>,
    <<\H10a05, \H10a06>>,
    <<\H10a0c, \H10a0f>>,
    <<\H10a38, \H10a3a>>,
    <<\H10a3f, \H10a3f>>,
    <<\H10ae5, \H10ae6>>,
    <<\H11001, \H11001>>,
    <<\H11038, \H11046>>,
    <<\H1107f, \H11081>>,
    <<\H110b3, \H110b6>>,
    <<\H110b9, \H110ba>>,
    <<\H110bd, \H110bd>>,
    <<\H11100, \H11102>>,
    <<\H11127, \H1112b>>,
    <<\H1112d, \H11134>>,
    <<\H11173, \H11173>>,
    <<\H11180, \H11181>>,
    <<\H111b6, \H111be>>,
    <<\H111ca, \H111cc>>,
    <<\H1122f, \H11231>>,
    <<\H11234, \H11234>>,
    <<\H11236, \H11237>>,
    <<\H1123e, \H1123e>>,
    <<\H112df, \H112df>>,
    <<\H112e3, \H112ea>>,
    <<\H11300, \H11301>>,
    <<\H1133c, \H1133c>>,
    <<\H11340, \H11340>>,
    <<\H11366, \H1136c>>,
    <<\H11370, \H11374>>,
    <<\H11438, \H1143f>>,
    <<\H11442, \H11444>>,
    <<\H11446, \H11446>>,
    <<\H114b3, \H114b8>>,
    <<\H114ba, \H114ba>>,
    <<\H114bf, \H114c0>>,
    <<\H114c2, \H114c3>>,
    <<\H115b2, \H115b5>>,
    <<\H115bc, \H115bd>>,
    <<\H115bf, \H115c0>>,
    <<\H115dc, \H115dd>>,
    <<\H11633, \H1163a>>,
    <<\H1163d, \H1163d>>,
    <<\H1163f, \H11640>>,
    <<\H116ab, \H116ab>>,
    <<\H116ad, \H116ad>>,
    <<\H116b0, \H116b5>>,
    <<\H116b7, \H116b7>>,
    <<\H1171d, \H1171f>>,
    <<\H11722, \H11725>>,
    <<\H11727, \H1172b>>,
    <<\H11a01, \H11a06>>,
    <<\H11a09, \H11a0a>>,
    <<\H11a33, \H11a38>>,
    <<\H11a3b, \H11a3e>>,
    <<\H11a47, \H11a47>>,
    <<\H11a51, \H11a56>>,
    <<\H11a59, \H11a5b>>,
    <<\H11a8a, \H11a96>>,
    <<\H11a98, \H11a99>>,
    <<\H11c30, \H11c36>>,
    <<\H11c38, \H11c3d>>,
    <<\H11c3f, \H11c3f>>,
    <<\H11c92, \H11ca7>>,
    <<\H11caa, \H11cb0>>,
    <<\H11cb2, \H11cb3>>,
    <<\H11cb5, \H11cb6>>,
    <<\H11d31, \H11d36>>,
    <<\H11d3a, \H11d3a>>,
    <<\H11d3c, \H11d3d>>,
    <<\H11d3f, \H11d45>>,
    <<\H11d47, \H11d47>>,
    <<\H16af0, \H16af4>>,
    <<\H16b30, \H16b36>>,
    <<\H16f8f, \H16f92>>,
    <<\H1bc9d, \H1bc9e>>,
    <<\H1bca0, \H1bca3>>,
    <<\H1d167, \H1d169>>,
    <<\H1d173, \H1d182>>,
    <<\H1d185, \H1d18b>>,
    <<\H1d1aa, \H1d1ad>>,
    <<\H1d242, \H1d244>>,
    <<\H1da00, \H1da36>>,
    <<\H1da3b, \H1da6c>>,
    <<\H1da75, \H1da75>>,
    <<\H1da84, \H1da84>>,
    <<\H1da9b, \H1da9f>>,
    <<\H1daa1, \H1daaf>>,
    <<\H1e000, \H1e006>>,
    <<\H1e008, \H1e018>>,
    <<\H1e01b, \H1e021>>,
    <<\H1e023, \H1e024>>,
    <<\H1e026, \H1e02a>>,
    <<\H1e8d0, \H1e8d6>>,
    <<\H1e944, \H1e94a>>,
    <<\He0001, \He0001>>,
    <<\He0020, \He007f>>,
    <<\He0100, \He01ef>>
    >>

\* static const struct interval wide[]: the sorted list of intervals of wide
\* characters (W and F), in the order of the source.
wide == <<
    <<\H1100, \H115f>>,
    <<\H231a, \H231b>>,
    <<\H2329, \H232a>>,
    <<\H23e9, \H23ec>>,
    <<\H23f0, \H23f0>>,
    <<\H23f3, \H23f3>>,
    <<\H25fd, \H25fe>>,
    <<\H2614, \H2615>>,
    <<\H2648, \H2653>>,
    <<\H267f, \H267f>>,
    <<\H2693, \H2693>>,
    <<\H26a1, \H26a1>>,
    <<\H26aa, \H26ab>>,
    <<\H26bd, \H26be>>,
    <<\H26c4, \H26c5>>,
    <<\H26ce, \H26ce>>,
    <<\H26d4, \H26d4>>,
    <<\H26ea, \H26ea>>,
    <<\H26f2, \H26f3>>,
    <<\H26f5, \H26f5>>,
    <<\H26fa, \H26fa>>,
    <<\H26fd, \H26fd>>,
    <<\H2705, \H2705>>,
    <<\H270a, \H270b>>,
    <<\H2728, \H2728>>,
    <<\H274c, \H274c>>,
    <<\H274e, \H274e>>,
    <<\H2753, \H2755>>,
    <<\H2757, \H2757>>,
    <<\H2795, \H2797>>,
    <<\H27b0, \H27b0>>,
    <<\H27bf, \H27bf>>,
    <<\H2b1b, \H2b1c>>,
    <<\H2b50, \H2b50>>,
    <<\H2b55, \H2b55>>,
    <<\H2e80, \H2e99>>,
    <<\H2e9b, \H2ef3>>,
    <<\H2f00, \H2fd5>>,
    <<\H2ff0, \H2ffb>>,
    <<\H3000, \H303e>>,
    <<\H3041, \H3096>>,
    <<\H3099, \H30ff>>,
    <<\H3105, \H312e>>,
    <<\H3131, \H318e>>,
    <<\H3190, \H31ba>>,
    <<\H31c0, \H31e3>>,
    <<\H31f0, \H321e>>,
    <<\H3220, \H3247>>,
    <<\H3250, \H32fe>>,
    <<\H3300, \H4dbf>>,
    <<\H4e00, \Ha48c>>,
    <<\Ha490, \Ha4c6>>,
    <<\Ha960, \Ha97c>>,
    <<\Hac00, \Hd7a3>>,
    <<\Hf900, \Hfaff>>,
    <<\Hfe10, \Hfe19>>,
    <<\Hfe30, \Hfe52>>,
    <<\Hfe54, \Hfe66>>,
    <<\Hfe68, \Hfe6b>>,
    <<\Hff01, \Hff60>>,
    <<\Hffe0, \Hffe6>>,
    <<\H16fe0, \H16fe1>>,
    <<\H17000, \H187ec>>,
    <<\H18800, \H18af2>>,
    <<\H1b000, \H1b11e>>,
    <<\H1b170, \H1b2fb>>,
    <<\H1f004, \H1f004>>,
    <<\H1f0cf, \H1f0cf>>,
    <<\H1f18e, \H1f18e>>,
    <<\H1f191, \H1f19a>>,
    <<\H1f200, \H1f202>>,
    <<\H1f210, \H1f23b>>,
    <<\H1f240, \H1f248>>,
    <<\H1f250, \H1f251>>,
    <<\H1f260, \H1f265>>,
    <<\H1f300, \H1f320>>,
    <<\H1f32d, \H1f335>>,
    <<\H1f337, \H1f37c>>,
    <<\H1f37e, \H1f393>>,
    <<\H1f3a0, \H1f3ca>>,
    <<\H1f3cf, \H1f3d3>>,
    <<\H1f3e0, \H1f3f0>>,
    <<\H1f3f4, \H1f3f4>>,
    <<\H1f3f8, \H1f43e>>,
    <<\H1f440, \H1f440>>,
    <<\H1f442, \H1f4fc>>,
    <<\H1f4ff, \H1f53d>>,
    <<\H1f54b, \H1f54e>>,
    <<\H1f550, \H1f567>>,
    <<\H1f57a, \H1f57a>>,
    <<\H1f595, \H1f596>>,
    <<\H1f5a4, \H1f5a4>>,
    <<\H1f5fb, \H1f64f>>,
    <<\H1f680, \H1f6c5>>,
    <<\H1f6cc, \H1f6cc>>,
    <<\H1f6d0, \H1f6d2>>,
    <<\H1f6eb, \H1f6ec>>,
    <<\H1f6f4, \H1f6f8>>,
    <<\H1f910, \H1f93e>>,
    <<\H1f940, \H1f94c>>,
    <<\H1f950, \H1f96b>>,
    <<\H1f980, \H1f997>>,
    <<\H1f9c0, \H1f9c0>>,
    <<\H1f9d0, \H1f9e6>>,
    <<\H20000, \H2fffd>>,
    <<\H30000, \H3fffd>>
    >>

\* static const struct interval ambiguous[] of mk_wcwidth_cjk: the sorted list
\* of intervals of East Asian Ambiguous characters, in the order of the source.
ambiguous == <<
    <<\H00a1, \H00a1>>,
    <<\H00a4, \H00a4>>,
    <<\H00a7, \H00a8>>,
    <<\H00aa, \H00aa>>,
    <<\H00ad, \H00ae>>,
    <<\H00b0, \H00b4>>,
    <<\H00b6, \H00ba>>,
    <<\H00bc, \H00bf>>,
    <<\H00c6, \H00c6>>,
    <<\H00d0, \H00d0>>,
    <<\H00d7, \H00d8>>,
    <<\H00de, \H00e1>>,
    <<\H00e6, \H00e6>>,
    <<\H00e8, \H00ea>>,
    <<\H00ec, \H00ed>>,
    <<\H00f0, \H00f0>>,
    <<\H00f2, \H00f3>>,
    <<\H00f7, \H00fa>>,
    <<\H00fc, \H00fc>>,
    <<\H00fe, \H00fe>>,
    <<\H0101, \H0101>>,
    <<\H0111, \H0111>>,
    <<\H0113, \H0113>>,
    <<\H011b, \H011b>>,
    <<\H0126, \H0127>>,
    <<\H012b, \H012b>>,
    <<\H0131, \H0133>>,
    <<\H0138, \H0138>>,
    <<\H013f, \H0142>>,
    <<\H0144, \H0144>>,
    <<\H0148, \H014b>>,
    <<\H014d, \H014d>>,
    <<\H0152, \H0153>>,
    <<\H0166, \H0167>>,
    <<\H016b, \H016b>>,
    <<\H01ce, \H01ce>>,
    <<\H01d0, \H01d0>>,
    <<\H01d2, \H01d2>>,
    <<\H01d4, \H01d4>>,
    <<\H01d6, \H01d6>>,
    <<\H01d8, \H01d8>>,
    <<\H01da, \H01da>>,
    <<\H01dc, \H01dc>>,
    <<\H0251, \H0251>>,
    <<\H0261, \H0261>>,
    <<\H02c4, \H02c4>>,
    <<\H02c7, \H02c7>>,
    <<\H02c9, \H02cb>>,
    <<\H02cd, \H02cd>>,
    <<\H02d0, \H02d0>>,
    <<\H02d8, \H02db>>,
    <<\H02dd, \H02dd>>,
    <<\H02df, \H02df>>,
    <<\H0300, \H036f>>,
    <<\H0391, \H03a1>>,
    <<\H03a3, \H03a9>>,
    <<\H03b1, \H03c1>>,
    <<\H03c3, \H03c9>>,
    <<\H0401, \H0401>>,
    <<\H0410, \H044f>>,
    <<\H0451, \H0451>>,
    <<\H2010, \H2010>>,
    <<\H2013, \H2016>>,
    <<\H2018, \H2019>>,
    <<\H201c, \H201d>>,
    <<\H2020, \H2022>>,
    <<\H2024, \H2027>>,
    <<\H2030, \H2030>>,
    <<\H2032, \H2033>>,
    <<\H2035, \H2035>>,
    <<\H203b, \H203b>>,
    <<\H203e, \H203e>>,
    <<\H2074, \H2074>>,
    <<\H207f, \H207f>>,
    <<\H2081, \H2084>>,
    <<\H20ac, \H20ac>>,
    <<\H2103, \H2103>>,
    <<\H2105, \H2105>>,
    <<\H2109, \H2109>>,
    <<\H2113, \H2113>>,
    <<\H2116, \H2116>>,
    <<\H2121, \H2122>>,
    <<\H2126, \H2126>>,
    <<\H212b, \H212b>>,
    <<\H2153, \H2154>>,
    <<\H215b, \H215e>>,
    <<\H2160, \H216b>>,
    <<\H2170, \H2179>>,
    <<\H2189, \H2189>>,
    <<\H2190, \H2199>>,
    <<\H21b8, \H21b9>>,
    <<\H21d2, \H21d2>>,
    <<\H21d4, \H21d4>>,
    <<\H21e7, \H21e7>>,
    <<\H2200, \H2200>>,
    <<\H2202, \H2203>>,
    <<\H2207, \H2208>>,
    <<\H220b, \H220b>>,
    <<\H220f, \H220f>>,
    <<\H2211, \H2211>>,
    <<\H2215, \H2215>>,
    <<\H221a, \H221a>>,
    <<\H221d, \H2220>>,
    <<\H2223, \H2223>>,
    <<\H2225, \H2225>>,
    <<\H2227, \H222c>>,
    <<\H222e, \H222e>>,
    <<\H2234, \H2237>>,
    <<\H223c, \H223d>>,
    <<\H2248, \H2248>>,
    <<\H224c, \H224c>>,
    <<\H2252, \H2252>>,
    <<\H2260, \H2261>>,
    <<\H2264, \H2267>>,
    <<\H226a, \H226b>>,
    <<\H226e, \H226f>>,
    <<\H2282, \H2283>>,
    <<\H2286, \H2287>>,
    <<\H2295, \H2295>>,
    <<\H2299, \H2299>>,
    <<\H22a5, \H22a5>>,
    <<\H22bf, \H22bf>>,
    <<\H2312, \H2312>>,
    <<\H2460, \H24e9>>,
    <<\H24eb, \H254b>>,
    <<\H2550, \H2573>>,
    <<\H2580, \H258f>>,
    <<\H2592, \H2595>>,
    <<\H25a0, \H25a1>>,
    <<\H25a3, \H25a9>>,
    <<\H25b2, \H25b3>>,
    <<\H25b6, \H25b7>>,
    <<\H25bc, \H25bd>>,
    <<\H25c0, \H25c1>>,
    <<\H25c6, \H25c8>>,
    <<\H25cb, \H25cb>>,
    <<\H25ce, \H25d1>>,
    <<\H25e2, \H25e5>>,
    <<\H25ef, \H25ef>>,
    <<\H2605, \H2606>>,
    <<\H2609, \H2609>>,
    <<\H260e, \H260f>>,
    <<\H261c, \H261c>>,
    <<\H261e, \H261e>>,
    <<\H2640, \H2640>>,
    <<\H2642, \H2642>>,
    <<\H2660, \H2661>>,
    <<\H2663, \H2665>>,
    <<\H2667, \H266a>>,
    <<\H266c, \H266d>>,
    <<\H266f, \H266f>>,
    <<\H269e, \H269f>>,
    <<\H26bf, \H26bf>>,
    <<\H26c6, \H26cd>>,
    <<\H26cf, \H26d3>>,
    <<\H26d5, \H26e1>>,
    <<\H26e3, \H26e3>>,
    <<\H26e8, \H26e9>>,
    <<\H26eb, \H26f1>>,
    <<\H26f4, \H26f4>>,
    <<\H26f6, \H26f9>>,
    <<\H26fb, \H26fc>>,
    <<\H26fe, \H26ff>>,
    <<\H273d, \H273d>>,
    <<\H2776, \H277f>>,
    <<\H2b56, \H2b59>>,
    <<\H3248, \H324f>>,
    <<\He000, \Hf8ff>>,
    <<\Hfe00, \Hfe0f>>,
    <<\Hfffd, \Hfffd>>,
    <<\H1f100, \H1f10a>>,
    <<\H1f110, \H1f12d>>,
    <<\H1f130, \H1f169>>,
    <<\H1f170, \H1f18d>>,
    <<\H1f18f, \H1f190>>,
    <<\H1f19b, \H1f1ac>>,
    <<\He0100, \He01ef>>,
    <<\Hf0000, \Hffffd>>,
    <<\H100000, \H10fffd>>
    >>

\* table[i] of the C code, whose arrays are indexed from 0.
Entry(table, i) == [first |-> table[i + 1][1], last |-> table[i + 1][2]]

\* The while loop of bisearch, from the values min and max have on entry.
RECURSIVE BisearchLoop(_, _, _, _)
BisearchLoop(u, table, min, max) ==
    IF max >= min
    THEN LET mid == (min + max) \div 2 IN
         IF u > Entry(table, mid).last
         THEN BisearchLoop(u, table, mid + 1, max)
         ELSE IF u < Entry(table, mid).first
              THEN BisearchLoop(u, table, min, mid - 1)
              ELSE 1
    ELSE 0

\* bisearch(ucs, table, max)
Bisearch(u, table, max) ==
    IF u < Entry(table, 0).first \/ u > Entry(table, max).last
    THEN 0
    ELSE BisearchLoop(u, table, 0, max)

\* sizeof(table) / sizeof(struct interval) - 1
MaxIndex(table) == Len(table) - 1

\* A fast path that ends below the C1 controls.
FastPathShort(u) == u < \H0080

\* if (ucs < 0x0300): the fast test for 8-bit characters.
FastPath(u) == u < \H0300

\* A test that misses DEL.
IsControlNoDel(u) == u < 32 \/ (u >= \H80 /\ u < \Ha0)

\* ucs < 32 || (ucs >= 0x7f && ucs < 0xa0)
IsControl(u) == u < 32 \/ (u >= \H7f /\ u < \Ha0)

\* A test that misses the last final consonant.
IsJamoShort(u) == u >= \H1160 /\ u < \H11FF

\* if (ucs >= 0x1160 && ucs <= 0x11FF): the Hangul Jamo medial vowels and
\* final consonants.
IsJamo(u) == u >= \H1160 /\ u <= \H11FF

\* mk_wcwidth(ucs)
MkWcwidth(u) ==
    IF FastPath(u)
    THEN IF u = 0 THEN 0
         ELSE IF IsControl(u) THEN -1
         ELSE 1
    ELSE IF Bisearch(u, combining, MaxIndex(combining)) = 1 THEN 0
    ELSE IF u < \H1100 THEN 1
    ELSE IF IsJamo(u) THEN 0
    ELSE 1 + Bisearch(u, wide, MaxIndex(wide))

\* A test that lets the widths 0 and 2 through to the search as well.
KeepsWidthNegative(w, u) == w < 0 \/ u < 128

\* if (w != 1 || ucs < 128) return w;
KeepsWidth(w, u) == w # 1 \/ u < 128

\* mk_wcwidth_cjk(ucs)
MkWcwidthCjk(u) ==
    IF KeepsWidth(MkWcwidth(u), u) THEN MkWcwidth(u)
    ELSE IF Bisearch(u, ambiguous, MaxIndex(ambiguous)) = 1 THEN 2
    ELSE 1

----------------------------------------------------------------------------
(* The inputs the calls are made with.                                     *)

Channel == 0 .. 255

GridVal(i) == (i * 255) \div GridN

Grid == {<<GridVal(i), GridVal(j), GridVal(k)>> : i, j, k \in 0 .. GridN}

Greys == {<<v, v, v>> : v \in Channel}

PaletteColours == {PaletteEntryRgb(k) : k \in 16 .. 255}

Offsets == (-Spread .. Spread) \cup {-20, -19, 19, 20}

NearGreys ==
    {t \in {<<v, v + d, v + e>> : v \in Channel, d \in Offsets, e \in Offsets} :
        t[2] \in Channel /\ t[3] \in Channel}

SearchInputs == Grid \cup Greys \cup PaletteColours

AnalyticInputs == SearchInputs \cup NearGreys

\* Black, white, and a colour for which two candidates (247 and 248) are
\* less than 1/10000 apart in a build of the source.
PerceptualInputs == {<<0, 0, 0>>, <<255, 255, 255>>, <<170, 160, 170>>}

XyzInputs == {<<x, y, z>> : x, y, z \in {0, 255}}

\* The arguments of xyz_to_lab: each of X, Y, Z is 0 or the reference
\* white's value.  The struct sRGB_to_xyz returns for black is one of them.
LabInputs ==
    {[X |-> x, Y |-> y, Z |-> z] :
        x \in {ToDouble(0, 1), RefWhite.X},
        y \in {ToDouble(0, 1), RefWhite.Y},
        z \in {ToDouble(0, 1), RefWhite.Z}}

\* What atoi gives for the arguments of the command line: any int.  Here a
\* value inside 0..255 and values off either end of it.
ArgvValues == {-1, 128, 256, 300}

ArgvInputs == {<<x, y, z>> : x, y, z \in ArgvValues}

\* The code points within WidthMargin of an end of an interval of the table.
Edges(table) ==
    UNION {{table[i][1] + d, table[i][2] + d} :
               i \in 1 .. Len(table), d \in -WidthMargin .. WidthMargin}

\* The arguments of mk_wcwidth: every code point of the fast path, the
\* code points around the ends of every interval of both tables and around
\* the constants of the function body, every Hangul Jamo medial vowel and
\* final consonant, and the ends of the code space.  The parameter is an
\* unsigned int; values from 2^31 on compare like 2^31 - 1, above every
\* table.
WidthInputs ==
    (0 .. \H0300)
        \cup Edges(combining) \cup Edges(wide)
        \cup (\H1160 .. \H11FF)
        \cup Edges(<<<<\H1100, \H1160>>, <<\H11FF, \H1200>>>>)
        \cup {\H10FFFF, \H110000, \H7FFFFFFF}

\* The arguments of mk_wcwidth_cjk: those of mk_wcwidth and the code points
\* around the ends of every interval of the ambiguous table.
CjkInputs == WidthInputs \cup Edges(ambiguous)

----------------------------------------------------------------------------
(* The state machine.                                                      *)

\* No call of bisearch, mk_wcswidth or wc_to_mb is in progress.
NoSearch == [table |-> <<>>, min |-> 0, max |-> 0, mid |-> 0]

NoString == [pwcs |-> <<>>, n |-> 0]

NoConv == [wcstr |-> <<>>, wclen |-> 0, mblen |-> 0, mbstr |-> <<>>]

NoXyz == [X |-> Widen(FloatZero), Y |-> Widen(FloatZero),
          Z |-> Widen(FloatZero)]

NoLab == [L |-> DZero, a |-> DZero, b |-> DZero]

NoTriple == <<0, 0, 0>>

NoDiffs == [dL |-> 0, dC |-> 0, dhp |-> 0, dH |-> 0]

\* A loop that stops one candidate early.
LoopTestShort(k) == k < 255

\* for(c=16; c<256; c++): the test of both search loops.
LoopTest(k) == k < 256

\* The values the variables take.
TypeOK ==
    /\ fn \in {"none", "PuTTY_256", "XTerm_256", "choose_XTterm256",
               "sRGB_to_xyz", "mk_wcwidth", "xyz_to_lab", "deltaE2000",
               "mk_wcwidth_cjk", "bisearch", "mk_wcswidth", "wc_to_mb"}
    /\ pc \in {"idle", "loop", "done"}
    /\ {r, g, b} \subseteq Channel \cup ArgvValues
    /\ c \in {0} \cup (16 .. 256)
    /\ best_diff \in Int
    /\ nearest_static \in Int
    /\ {nr, ng, nb} \subseteq Channel
    /\ this_diff \in Nat
    /\ grey.taken \in BOOLEAN
    /\ dE \in 0 .. MaxDE
    /\ ret \in Int
    /\ ucs \in Nat
    /\ lab.L.neg \in BOOLEAN
    /\ fp_contract \in BOOLEAN
    /\ {lab1, lab2} \subseteq LabGrid
    /\ kept_wide \subseteq ExtendedLocals
    /\ {skew, hue_err[1], hue_err[2]} \subseteq -MaxErr .. MaxErr
    /\ {diffs.dL, diffs.dC, delta_e} \subseteq {0, 1}
    /\ diffs.dhp \in -HalfTurn .. HalfTurn
    /\ diffs.dH \in -1 .. 1
    /\ twice_hp \in 0 .. 2 * FullTurn + 4 * MaxErr

Init ==
    /\ fn = "none" /\ pc = "idle"
    /\ r = 0 /\ g = 0 /\ b = 0
    /\ c = 0 /\ best_diff = 0 /\ nearest_static = 0
    /\ nr = 0 /\ ng = 0 /\ nb = 0
    /\ this_diff = 0
    /\ grey = NoGrey
    /\ dE = 0
    /\ xyz = NoXyz
    /\ ret = 0
    /\ ucs = 0
    /\ lab = NoLab
    /\ fp_contract = FALSE
    /\ lab1 = NoTriple /\ lab2 = NoTriple /\ skew = 0
    /\ hue_err = <<0, 0>>
    /\ twice_hp = 0
    /\ kept_wide = {}
    /\ diffs = NoDiffs
    /\ delta_e = 0
    /\ search = NoSearch /\ str = NoString /\ conv = NoConv

\* PuTTY_256(t): the whole function, it has no loop.
PuTTYCall(t) ==
    /\ LET xr == CubeCoord(t[1])
           xg == CubeCoord(t[2])
           xb == CubeCoord(t[3])
           gl == GreyLocals(t[1], t[2], t[3], xr, xg, xb)
       IN  /\ r' = t[1] /\ g' = t[2] /\ b' = t[3]
           /\ nr' = xr /\ ng' = xg /\ nb' = xb
           /\ grey' = gl
           /\ nearest_static' = AnalyticResult(xr, xg, xb, gl)
           /\ ret' = AnalyticResult(xr, xg, xb, gl)
    /\ best_diff' = -1
    /\ fn' = "PuTTY_256" /\ pc' = "done"
    /\ UNCHANGED <<c, this_diff, dE, xyz>>
    /\ UNCHANGED <<widthVars, textVars, labVars, deltaVars>>

\* p = PuTTY_256(r,g,b) in main's loops over the colours.
CallPuTTY == pc = "idle" /\ \E t \in AnalyticInputs : PuTTYCall(t)

\* p = PuTTY_256(r,g,b) with r, g, b = atoi(argv[1..3]): nothing between
\* atoi and the call looks at the values.
CallPuTTYArgv == pc = "idle" /\ \E t \in ArgvInputs : PuTTYCall(t)

\* XTerm_256(t): entry, up to the first test of c<256.
XTermCall(t) ==
    /\ r' = t[1] /\ g' = t[2] /\ b' = t[3]
    /\ best_diff' = -1 /\ nearest_static' = 0
    /\ c' = 16
    /\ fn' = "XTerm_256" /\ pc' = "loop"
    /\ UNCHANGED <<nr, ng, nb, this_diff, grey, dE, xyz, ret>>
    /\ UNCHANGED <<widthVars, textVars, labVars, deltaVars>>

\* x = XTerm_256(r,g,b) in main's loops over the colours.
CallXTerm == pc = "idle" /\ \E t \in SearchInputs : XTermCall(t)

\* x = XTerm_256(r,g,b) with r, g, b = atoi(argv[1..3]).
CallXTermArgv == pc = "idle" /\ \E t \in ArgvInputs : XTermCall(t)

\* One iteration of XTerm_256's loop, and c++.
XTermIter ==
    /\ fn = "XTerm_256" /\ pc = "loop" /\ LoopTest(c)
    /\ LET p == PaletteEntryRgb(c)
           d == SqDiff(p, r, g, b)
       IN  /\ nr' = p[1] /\ ng' = p[2] /\ nb' = p[3]
           /\ this_diff' = d
           /\ IF Improves(best_diff, d)
              THEN nearest_static' = c /\ best_diff' = d
              ELSE UNCHANGED <<nearest_static, best_diff>>
    /\ c' = c + 1
    /\ UNCHANGED <<fn, pc, r, g, b, grey, dE, xyz, ret>>
    /\ UNCHANGED <<widthVars, textVars, labVars, deltaVars>>

\* c<256 fails: return nearest_static;
XTermReturn ==
    /\ fn = "XTerm_256" /\ pc = "loop" /\ ~LoopTest(c)
    /\ ret' = nearest_static
    /\ pc' = "done"
    /\ UNCHANGED <<fn, r, g, b, c, best_diff, nearest_static, nr, ng, nb,
                   this_diff, grey, dE, xyz>>
    /\ UNCHANGED <<widthVars, textVars, labVars, deltaVars>>

\* choose_XTterm256(r,g,b): entry, up to the first test of c<256.
CallChoose ==
    /\ pc = "idle"
    /\ \E t \in PerceptualInputs : r' = t[1] /\ g' = t[2] /\ b' = t[3]
    /\ best_diff' = -1 /\ nearest_static' = 0
    /\ c' = 16
    /\ fn' = "choose_XTterm256" /\ pc' = "loop"
    /\ UNCHANGED <<nr, ng, nb, this_diff, grey, dE, xyz, ret>>
    /\ UNCHANGED <<widthVars, textVars, labVars, deltaVars>>

\* One iteration of choose_XTterm256's loop, and c++.
ChooseIter ==
    /\ fn = "choose_XTterm256" /\ pc = "loop" /\ LoopTest(c)
    /\ LET p == ChoosePaletteRgb(c) IN
        /\ nr' = p[1] /\ ng' = p[2] /\ nb' = p[3]
        /\ \E d \in RgbCIEDE2000(<<r, g, b>>, p) :
            /\ dE' = d
            /\ this_diff' = ToThisDiff(d)
            /\ IF Improves(best_diff, ToThisDiff(d))
               THEN nearest_static' = c /\ best_diff' = ToThisDiff(d)
               ELSE UNCHANGED <<nearest_static, best_diff>>
    /\ c' = c + 1
    /\ UNCHANGED <<fn, pc, r, g, b, grey, xyz, ret>>
    /\ UNCHANGED <<widthVars, textVars, labVars, deltaVars>>

\* c<256 fails: return nearest_static;
ChooseReturn ==
    /\ fn = "choose_XTterm256" /\ pc = "loop" /\ ~LoopTest(c)
    /\ ret' = nearest_static
    /\ pc' = "done"
    /\ UNCHANGED <<fn, r, g, b, c, best_diff, nearest_static, nr, ng, nb,
                   this_diff, grey, dE, xyz>>
    /\ UNCHANGED <<widthVars, textVars, labVars, deltaVars>>

\* xstandard = sRGB_to_xyz(std_r, std_g, std_b): the whole function.
CallSRGBToXyz ==
    /\ pc = "idle"
    /\ \E t \in XyzInputs :
        /\ r' = t[1] /\ g' = t[2] /\ b' = t[3]
        /\ xyz' = SRGBToXyz(t[1], t[2], t[3])
    /\ fn' = "sRGB_to_xyz" /\ pc' = "done"
    /\ UNCHANGED <<c, best_diff, nearest_static, nr, ng, nb, this_diff,
                   grey, dE, ret>>
    /\ UNCHANGED <<widthVars, textVars, labVars, deltaVars>>

\* xyz_to_lab(c) on a struct of its own: the whole function.
CallXyzToLab ==
    /\ pc = "idle"
    /\ \E input \in LabInputs, k \in BOOLEAN :
        /\ xyz' = input
        /\ fp_contract' = k
        /\ lab' = XyzToLab(input, k)
    /\ fn' = "xyz_to_lab" /\ pc' = "done"
    /\ UNCHANGED <<r, g, b, c, best_diff, nearest_static, nr, ng, nb,
                   this_diff, grey, dE, ret, widthVars, textVars, deltaVars>>

\* standard = xyz_to_lab(xstandard) in rgbCIEDE2000, after
\* xstandard = sRGB_to_xyz(std_r, std_g, std_b): the whole function.
ConvertToLab ==
    /\ fn = "sRGB_to_xyz" /\ pc = "done"
    /\ xyz \in LabInputs
    /\ \E k \in BOOLEAN :
        /\ fp_contract' = k
        /\ lab' = XyzToLab(xyz, k)
    /\ fn' = "xyz_to_lab"
    /\ UNCHANGED <<pc, colourVars, ret, widthVars, textVars, deltaVars>>

\* deltaE2000(std_d, sam_d, &deltaE): the whole function.
CallDeltaE2000 ==
    /\ pc = "idle"
    /\ \E std \in LabGrid, w \in SUBSET ExtendedLocals :
        \E sample \in Mirrors(std) :
        \E k \in Skews(sample) :
        \E e1 \in RoundingErrors(Hue(std)),
           e2 \in RoundingErrors(SkewedHue(sample, k)) :
        \E dc \in DC(std, sample, k, w) :
            /\ (Hue(std) = SkewedHue(sample, k)) => (e1 = e2)
            /\ lab1' = std /\ lab2' = sample /\ skew' = k
            /\ hue_err' = <<e1, e2>>
            /\ kept_wide' = w
            /\ LET hs  == Hpstd(Hue(std), e1, w)
                   ht  == Hpsample(SkewedHue(sample, k), e2, w, sample)
                   cpz == CpprodZero(std, sample)
                   dh  == DH(Dhp(hs, ht, cpz), cpz)
               IN  /\ diffs' = [dL  |-> DL(std, sample),
                                dC  |-> dc,
                                dhp |-> Dhp(hs, ht, cpz),
                                dH  |-> dh]
                   /\ twice_hp' = TwiceHp(hs, ht, cpz)
                   /\ delta_e' = DeltaE2000(DL(std, sample), dc, dh)
    /\ fn' = "deltaE2000" /\ pc' = "done"
    /\ UNCHANGED <<colourVars, ret, widthVars, textVars, labVars>>

\* w = mk_wcwidth(ucs): the whole function, with its calls of bisearch.
CallWcwidth ==
    /\ pc = "idle"
    /\ \E u \in WidthInputs : ucs' = u /\ ret' = MkWcwidth(u)
    /\ fn' = "mk_wcwidth" /\ pc' = "done"
    /\ UNCHANGED <<colourVars, labVars, deltaVars, textVars>>

\* mk_wcwidth_cjk(ucs): the whole function.
CallWcwidthCjk ==
    /\ pc = "idle"
    /\ \E u \in CjkInputs : ucs' = u /\ ret' = MkWcwidthCjk(u)
    /\ fn' = "mk_wcwidth_cjk" /\ pc' = "done"
    /\ UNCHANGED <<colourVars, labVars, deltaVars, textVars>>

\* The caller has used the result; the activation record is gone.
Finish ==
    /\ pc = "done"
    /\ fn' = "none" /\ pc' = "idle"
    /\ r' = 0 /\ g' = 0 /\ b' = 0
    /\ c' = 0 /\ best_diff' = 0 /\ nearest_static' = 0
    /\ nr' = 0 /\ ng' = 0 /\ nb' = 0
    /\ this_diff' = 0
    /\ grey' = NoGrey
    /\ dE' = 0
    /\ xyz' = NoXyz
    /\ ret' = 0
    /\ ucs' = 0
    /\ lab' = NoLab
    /\ fp_contract' = FALSE
    /\ lab1' = NoTriple /\ lab2' = NoTriple /\ skew' = 0
    /\ hue_err' = <<0, 0>>
    /\ twice_hp' = 0
    /\ kept_wide' = {}
    /\ diffs' = NoDiffs
    /\ delta_e' = 0
    /\ search' = NoSearch /\ str' = NoString /\ conv' = NoConv

----------------------------------------------------------------------------
(* bisearch on its own, for tables other than the three of the file.       *)

\* The tables of a call of bisearch have at most MaxIntervals intervals ...
MaxIntervals == 3

\* ... of code points in 0 .. MaxCode.
MaxCode == 5

\* The tables of k intervals of code points from lo on, sorted by first,
\* with first <= last and each last below the next first.
RECURSIVE SortedTables(_, _)
SortedTables(lo, k) ==
    IF k = 0 THEN {<<>>}
    ELSE UNION {UNION {{<<<<f, l>>>> \o rest :
                           rest \in SortedTables(l + 1, k - 1)} :
                       l \in f .. MaxCode} :
                   f \in lo .. MaxCode}

Tables == UNION {SortedTables(0, k) : k \in 1 .. MaxIntervals}

\* A test that takes the ends of the table for code points outside it.
OutsideOrOnEnd(u, table, max) ==
    u <= Entry(table, 0).first \/ u >= Entry(table, max).last

\* if (ucs < table[0].first || ucs > table[max].last) return 0;
Outside(u, table, max) ==
    u < Entry(table, 0).first \/ u > Entry(table, max).last

\* bisearch(ucs, table, max): entry, up to the first test of max >= min.
CallBisearch ==
    /\ pc = "idle"
    /\ \E t \in Tables, u \in 0 .. MaxCode + 1 :
        /\ ucs' = u
        /\ search' = [table |-> t, min |-> 0, max |-> MaxIndex(t), mid |-> 0]
        /\ IF Outside(u, t, MaxIndex(t))
           THEN ret' = 0 /\ pc' = "done"
           ELSE ret' = ret /\ pc' = "loop"
    /\ fn' = "bisearch"
    /\ UNCHANGED <<colourVars, labVars, deltaVars, str, conv>>

\* One iteration of the while loop of bisearch.
BisearchIter ==
    /\ fn = "bisearch" /\ pc = "loop" /\ search.max >= search.min
    /\ LET mid == (search.min + search.max) \div 2 IN
        IF ucs > Entry(search.table, mid).last
        THEN /\ search' = [search EXCEPT !.mid = mid, !.min = mid + 1]
             /\ UNCHANGED <<pc, ret>>
        ELSE IF ucs < Entry(search.table, mid).first
             THEN /\ search' = [search EXCEPT !.mid = mid, !.max = mid - 1]
                  /\ UNCHANGED <<pc, ret>>
             ELSE /\ search' = [search EXCEPT !.mid = mid]
                  /\ ret' = 1 /\ pc' = "done"
    /\ UNCHANGED <<fn, colourVars, widthVars, labVars, deltaVars, str, conv>>

\* max >= min fails: return 0;
BisearchReturn ==
    /\ fn = "bisearch" /\ pc = "loop" /\ search.max < search.min
    /\ ret' = 0 /\ pc' = "done"
    /\ UNCHANGED <<fn, colourVars, widthVars, labVars, deltaVars, textVars>>

----------------------------------------------------------------------------
(* mk_wcswidth.                                                            *)

\* A call of mk_wcswidth is given n <= MaxStr and MaxStr + 1 code points:
\* the cell after the first n is read when none of them is zero.
MaxStr == 3

\* The terminator and one code point of each width: ESC (-1), a combining
\* acute accent (0), A (1) and a CJK ideograph (2).
WideChars == {0, \H001B, \H0301, \H0041, \H4E00}

\* A loop test that goes on past a zero code point.
ContinuesPastZero(ch, n) == n > 0

\* for (;*pwcs && n-- > 0; pwcs++)
Continues(ch, n) == ch # 0 /\ n > 0

\* The loop of mk_wcswidth from the i-th code point on, with n and width
\* as they are there.
RECURSIVE WcswidthLoop(_, _, _, _)
WcswidthLoop(pwcs, i, n, width) ==
    IF Continues(pwcs[i], n)
    THEN IF MkWcwidth(pwcs[i]) < 0
         THEN -1
         ELSE WcswidthLoop(pwcs, i + 1, n - 1, width + MkWcwidth(pwcs[i]))
    ELSE width

\* mk_wcswidth(pwcs, n)
MkWcswidth(pwcs, n) == WcswidthLoop(pwcs, 1, n, 0)

\* width = mk_wcswidth(pwcs, n): the whole function.
CallWcswidth ==
    /\ pc = "idle"
    /\ \E s \in [1 .. MaxStr + 1 -> WideChars], k \in 0 .. MaxStr :
        /\ str' = [pwcs |-> s, n |-> k]
        /\ ret' = MkWcswidth(s, k)
    /\ fn' = "mk_wcswidth" /\ pc' = "done"
    /\ UNCHANGED <<colourVars, widthVars, labVars, deltaVars, search, conv>>

----------------------------------------------------------------------------
(* wc_to_mb with codepage DEFAULT_CODEPAGE.                                 *)

\* A call of wc_to_mb is given at most MaxWide wide characters ...
MaxWide == 3

\* ... and a buffer of at most MaxBuf bytes.
MaxBuf == 4

\* A (one byte), e acute (two), the euro sign (three) and a surrogate,
\* which has no encoding.
WideInputs == {\H0041, \H00E9, \H20AC, \HD800}

\* What wcrtomb puts in output for wc in a UTF-8 locale; <<>> where it
\* fails and returns (size_t)-1.
Utf8(wc) ==
    IF wc < \H80 THEN <<wc>>
    ELSE IF wc < \H800 THEN <<\HC0 + (wc \div 64), \H80 + (wc % 64)>>
    ELSE IF wc \in \HD800 .. \HDFFF THEN <<>>
    ELSE IF wc < \H10000
         THEN <<\HE0 + (wc \div 4096), \H80 + ((wc \div 64) % 64), \H80 + (wc % 64)>>
    ELSE IF wc < \H110000
         THEN <<\HF0 + (wc \div 262144), \H80 + ((wc \div 4096) % 64),
                \H80 + ((wc \div 64) % 64), \H80 + (wc % 64)>>
    ELSE <<>>

\* int i = wcrtomb(output, wcstr[0], &state);
Wcrtomb(wc) == IF Utf8(wc) = <<>> THEN -1 ELSE Len(Utf8(wc))

\* if (i == (size_t)-1 || i > n - mblen) break;
Breaks(i, n, mblen) == i = -1 \/ i > n - mblen

\* The while loop of wc_to_mb from the k-th wide character on, mbstr being
\* the n bytes put in the buffer so far.
RECURSIVE ToMbLoop(_, _, _, _)
ToMbLoop(wcstr, k, mblen, mbstr) ==
    IF k > Len(wcstr) THEN mbstr
    ELSE IF Breaks(Wcrtomb(wcstr[k]), Len(mbstr), mblen) THEN mbstr
    ELSE ToMbLoop(wcstr, k + 1, mblen, mbstr \o Utf8(wcstr[k]))

\* wc_to_mb(DEFAULT_CODEPAGE, flags, wcstr, wclen, mbstr, mblen, ...): the
\* whole function; it returns n, the number of bytes it has put in mbstr.
CallWcToMb ==
    /\ pc = "idle"
    /\ \E len \in 0 .. MaxWide, size \in 0 .. MaxBuf :
        \E s \in [1 .. len -> WideInputs] :
            /\ conv' = [wcstr |-> s, wclen |-> len, mblen |-> size,
                        mbstr |-> ToMbLoop(s, 1, size, <<>>)]
            /\ ret' = Len(ToMbLoop(s, 1, size, <<>>))
    /\ fn' = "wc_to_mb" /\ pc' = "done"
    /\ UNCHANGED <<colourVars, widthVars, labVars, deltaVars, search, str>>

Next ==
    \/ CallPuTTY
    \/ CallXTerm
    \/ XTermIter
    \/ XTermReturn
    \/ CallChoose
    \/ ChooseIter
    \/ ChooseReturn
    \/ CallSRGBToXyz
    \/ CallXyzToLab
    \/ ConvertToLab
    \/ CallDeltaE2000
    \/ CallWcwidth
    \/ CallWcwidthCjk
    \/ Finish

Spec == Init /\ [][Next]_vars

\* The analytic matcher alone.
NextAnalytic == CallPuTTY \/ Finish

SpecAnalytic == Init /\ [][NextAnalytic]_vars

\* The Euclidean search alone.
NextEuclid == CallXTerm \/ XTermIter \/ XTermReturn \/ Finish

SpecEuclid == Init /\ [][NextEuclid]_vars

\* The two matchers as main calls them on the arguments of the command line.
NextArgv ==
    \/ CallPuTTYArgv
    \/ CallXTermArgv
    \/ XTermIter
    \/ XTermReturn
    \/ Finish

SpecArgv == Init /\ [][NextArgv]_vars

\* bisearch alone; the loop of a call in progress goes on.
NextBisearch == CallBisearch \/ BisearchIter \/ BisearchReturn \/ Finish

SpecBisearch ==
    Init /\ [][NextBisearch]_vars /\ WF_vars(BisearchIter \/ BisearchReturn)

\* mk_wcswidth alone.
NextWcswidth == CallWcswidth \/ Finish

SpecWcswidth == Init /\ [][NextWcswidth]_vars

\* wc_to_mb alone.
NextWcToMb == CallWcToMb \/ Finish

SpecWcToMb == Init /\ [][NextWcToMb]_vars

\* mk_wcwidth alone.
NextWidth == CallWcwidth \/ CallWcwidthCjk \/ Finish

SpecWidth == Init /\ [][NextWidth]_vars

\* The perceptual search alone.
NextPerceptual == CallChoose \/ ChooseIter \/ ChooseReturn \/ Finish

SpecPerceptual == Init /\ [][NextPerceptual]_vars

\* A call that has started runs on: the program is sequential, and once a
\* search loop is entered nothing but its own next step can happen.
SearchStep == XTermIter \/ XTermReturn \/ ChooseIter \/ ChooseReturn

SpecLive == Spec /\ WF_vars(SearchStep)

----------------------------------------------------------------------------
(* What the calls in progress are.                                         *)

Input == <<r, g, b>>

AnalyticDone == fn = "PuTTY_256" /\ pc = "done"

EuclidDone == fn = "XTerm_256" /\ pc = "done"

PerceptualDone == fn = "choose_XTterm256" /\ pc = "done"

XyzDone == fn = "sRGB_to_xyz" /\ pc = "done"

WidthDone == fn = "mk_wcwidth" /\ pc = "done"

LabDone == fn = "xyz_to_lab" /\ pc = "done"

DeltaDone == fn = "deltaE2000" /\ pc = "done"

\* The squared RGB distance of palette index k to the arguments.
Dist(k) == SqDiff(PaletteEntryRgb(k), r, g, b)

\* The grey block ran and its two squared distances are equal.
GreyTie ==
    /\ grey.taken
    /\ (grey.tc - grey.tw) * (grey.tc - grey.tw)
           = (grey.tg - grey.tw) * (grey.tg - grey.tw)

----------------------------------------------------------------------------
(* The claims.                                                             *)

\* C1: the index XTerm_256 returns has a squared RGB distance to the input
\* equal to the minimum of that distance over all palette indices 16..255.
C1_EuclideanIsArgmin ==
    EuclidDone =>
        /\ ret \in 16 .. 255
        /\ \A k \in 16 .. 255 : Dist(ret) <= Dist(k)

\* A call on a colour that is no palette entry has returned, and a later
\* candidate than the first was the best.
C1_Witness ==
    /\ EuclidDone
    /\ Input \notin PaletteColours
    /\ Dist(ret) > 0
    /\ ret > 16

\* C2: when several indices share the minimum distance, XTerm_256 returns
\* the lowest of them.
C2_LowestIndexWinsTies ==
    EuclidDone =>
        \A k \in 16 .. 255 : Dist(k) = Dist(ret) => ret <= k

\* A call has returned for an input that two palette entries are equally
\* near to: (4,4,4) between black (16) and the first ramp entry (232).
C2_Witness ==
    /\ EuclidDone
    /\ Input = <<4, 4, 4>>
    /\ ret = 16
    /\ Dist(232) = Dist(16)

\* C3: each of the three matchers returns an index in 16..255, never one
\* in 0..15; PuTTY_256 also in its grey block with an average below 4 or
\* above 243.
C3_IndexInRange ==
    (AnalyticDone \/ EuclidDone \/ PerceptualDone) => ret \in 16 .. 255

\* PuTTY_256 has returned the clamped grayscale index for an average above
\* 243.
C3_Witness ==
    /\ AnalyticDone
    /\ grey.taken
    /\ grey.tw > 243
    /\ 232 + CDiv(grey.tw - 4, 10) > 255
    /\ ret = 255

\* C4: PuTTY_256 maps a colour that is exactly a palette entry to an index
\* of that colour.
C4_PaletteEntryKept ==
    (AnalyticDone /\ Input \in PaletteColours) =>
        (ret \in 16 .. 255 /\ PaletteEntryRgb(ret) = Input)

\* C5: XTerm_256 maps the colour of every index k in 16..255 back to k, so
\* no two indices have the same colour; (255,0,0) goes to 196.
C5_EuclideanLeftInverse ==
    EuclidDone =>
        /\ \A k \in 16 .. 255 : PaletteEntryRgb(k) = Input => ret = k
        /\ Input = <<255, 0, 0>> => ret = 196

\* XTerm_256 has returned 196 for pure red.
C5_Witness ==
    /\ EuclidDone
    /\ Input = <<255, 0, 0>>
    /\ Input = PaletteEntryRgb(196)
    /\ ret = 196

\* C6: the coordinates PuTTY_256 computes are in 0..5, their encoding
\* 16 + nb + ng*6 + nr*36 is in 16..231 and decoding it as the search
\* loops do gives the coordinates back; the same for every triple of
\* coordinates in 0..5.
C6_CubeRoundTrip ==
    AnalyticDone =>
        /\ {nr, ng, nb} \subseteq 0 .. 5
        /\ CubeIndex(nr, ng, nb) \in 16 .. 231
        /\ CubeDecode(CubeIndex(nr, ng, nb) - 16) = <<nr, ng, nb>>
        /\ \A xr, xg, xb \in 0 .. 5 :
               /\ CubeIndex(xr, xg, xb) \in 16 .. 231
               /\ CubeDecode(CubeIndex(xr, xg, xb) - 16) = <<xr, xg, xb>>

\* PuTTY_256 has encoded three different coordinates.
C6_Witness ==
    /\ AnalyticDone
    /\ nr = 5 /\ ng = 3 /\ nb = 1
    /\ ~grey.taken
    /\ ret = 16 + 1 + 18 + 180

\* C7: the grayscale ramp is strictly increasing, its entries have three
\* equal channels of value 8 + 10*(index-232) and the last one is 238; the
\* locals of the loop hold these values after the iteration for the index.
C7_GreyRampIncreasing ==
    /\ \A i \in 232 .. 254 : PaletteEntryRgb(i)[1] < PaletteEntryRgb(i + 1)[1]
    /\ \A i \in 232 .. 255 :
           PaletteEntryRgb(i) = <<8 + 10 * (i - 232), 8 + 10 * (i - 232),
                                  8 + 10 * (i - 232)>>
    /\ PaletteEntryRgb(255)[1] = 238
    /\ (fn = "XTerm_256" /\ pc = "loop" /\ c > 232) =>
           (nr = ng /\ ng = nb /\ nr = 8 + 10 * (c - 1 - 232))

\* The loop has just decoded the last ramp entry.
C7_Witness ==
    /\ fn = "XTerm_256" /\ pc = "loop"
    /\ c = 256
    /\ nr = 238 /\ ng = 238 /\ nb = 238

\* C8 as stated: on equal squared distances of tc and tg to tw, PuTTY_256
\* returns the cube index.
C8_TieFavoursCube ==
    (AnalyticDone /\ GreyTie) => ret = CubeIndex(nr, ng, nb)

\* C8 as amended: on equal squared distances of tc and tg to tw, PuTTY_256
\* returns the grayscale index nw.
C8_TieFavoursGrey ==
    (AnalyticDone /\ GreyTie) => (ret = grey.nw /\ ret # CubeIndex(nr, ng, nb))

\* PuTTY_256 has returned 232 for (4,4,4), where tc = 0, tw = 4 and tg = 8.
C8_Witness ==
    /\ AnalyticDone
    /\ GreyTie
    /\ Input = <<4, 4, 4>>
    /\ grey.tc = 0 /\ grey.tw = 4 /\ grey.tg = 8
    /\ ret = 232

\* C9: for r = g = b = v with 4 <= v <= 255, PuTTY_256 runs the grey block
\* and returns a grayscale index in 232..255.
C9_AchromaticGoesToRamp ==
    (AnalyticDone /\ r = g /\ g = b /\ r >= 4) =>
        (grey.taken /\ ret = grey.nw /\ ret \in 232 .. 255)

\* PuTTY_256 has returned a ramp index for (128,128,128).
C9_Witness ==
    /\ AnalyticDone
    /\ Input = <<128, 128, 128>>
    /\ grey.taken
    /\ ret \in 232 .. 255

\* C10: sRGB_to_xyz maps (255,255,255) to exactly the reference white
\* (95.047, 100.000, 108.883), the doubles xyz_to_lab divides by.
C10_WhiteIsReferenceWhite ==
    (XyzDone /\ Input = <<255, 255, 255>>) => xyz = RefWhite

----------------------------------------------------------------------------
(* C13: choose_XTterm256(0,0,0) returns 16, the palette entry (0,0,0): the *)
(* first candidate examined is the input itself, its distance is 0, and no *)
(* later candidate is a strict improvement on 0.                           *)
C13_BlackGoesTo16 ==
    /\ ChoosePaletteRgb(16) = <<0, 0, 0>>
    /\ (fn = "choose_XTterm256" /\ Input = <<0, 0, 0>> /\ c > 16)
           => (nearest_static = 16 /\ best_diff = 0)
    /\ (PerceptualDone /\ Input = <<0, 0, 0>>) => ret = 16

\* A search for black has returned, and a later candidate was as close as
\* the first one after the conversion to int.
C13_Witness ==
    /\ PerceptualDone /\ Input = <<0, 0, 0>>
    /\ ret = 16 /\ this_diff = 0

----------------------------------------------------------------------------
----------------------------------------------------------------------------
(* C17: every matcher call terminates.  PuTTY_256 has no loop: the call    *)
(* goes from idle to done in one step.  A search loop starts at candidate  *)
(* 16, each iteration examines candidate c (leaving its colour in nr, ng,  *)
(* nb) and moves on to c+1, and the call returns when c is 256: every      *)
(* index 16..255 exactly once, in increasing order, 240 iterations.        *)
C17_MatchersTerminate ==
    /\ (pc = "loop") ~> (pc = "done")
    /\ [][(pc = "idle" /\ fn' = "PuTTY_256") => pc' = "done"]_vars
    /\ [][(pc = "idle" /\ pc' = "loop") => c' = 16]_vars
    /\ [][(pc = "loop" /\ c < 256)
            => /\ pc' = "loop" /\ c' = c + 1
               /\ <<nr', ng', nb'>> = PaletteEntryRgb(c)]_vars
    /\ [][(pc = "loop" /\ pc' = "done") => c = 16 + 240]_vars
    /\ [](pc = "loop" => c \in 16 .. 256)

\* A search has returned after its last iteration, that of candidate 255.
C17_Witness ==
    /\ pc = "done" /\ fn \in {"XTerm_256", "choose_XTterm256"}
    /\ c = 256 /\ <<nr, ng, nb>> = PaletteEntryRgb(255)

----------------------------------------------------------------------------
(* C15: a call of a matcher with a channel value outside 0..255 is         *)
(* rejected: it does not run to its return and no palette index comes back *)
(* for it.                                                                 *)
C15_OutOfRangeRejected ==
    (fn \in {"PuTTY_256", "XTerm_256"} /\ ~(Input \in Channel \X Channel \X Channel))
        => pc # "done"

----------------------------------------------------------------------------
(* C19: mk_wcwidth returns 0 for U+0000 and -1 for the other C0 and C1     *)
(* control characters and DEL, the code points 1..31 and 0x7F..0x9F; it    *)
(* returns -1 for no other code point, and every value it returns is one   *)
(* of -1, 0, 1, 2.                                                         *)
C19_ControlsAreMinusOne ==
    WidthDone =>
        /\ ret \in {-1, 0, 1, 2}
        /\ (ucs = 0 => ret = 0)
        /\ (ret = -1 <=> ucs \in (1 .. 31) \cup (127 .. 159))

\* A call for the last C1 control character, U+009F, has returned -1.
C19_Witness == WidthDone /\ ucs = 159 /\ ret = -1

----------------------------------------------------------------------------
(* C20: mk_wcwidth returns 1 for U+00AD SOFT HYPHEN although the table of  *)
(* zero-width characters lists it: the fast path for code points below     *)
(* 0x0300 returns before the table is searched.                            *)
C20_SoftHyphenIsOne ==
    /\ Bisearch(173, combining, MaxIndex(combining)) = 1
    /\ Entry(combining, 0) = [first |-> 173, last |-> 173]
    /\ (WidthDone /\ ucs = 173) => ret = 1

\* A call for U+00AD has returned.
C20_Witness == WidthDone /\ ucs = 173 /\ ret = 1

----------------------------------------------------------------------------
(* C11 as stated: sRGB_to_xyz(0,0,0) is (0,0,0), and xyz_to_lab of it is   *)
(* L = 0, a = 0, b = 0.                                                    *)
C11_BlackIsLabZero ==
    /\ (XyzDone /\ Input = <<0, 0, 0>>) => xyz = NoXyz
    /\ (LabDone /\ xyz = NoXyz) => lab = NoLab

\* -2^-52
MinusEpsilon == [neg |-> TRUE, hi |-> 2^23, lo |-> 0, e |-> 23 + 52]

(* C11 as the code has it: sRGB_to_xyz(0,0,0) is (0,0,0); xyz_to_lab of it *)
(* takes the linear branch on all three axes and has a = b = 0; its L is   *)
(* 116 * (16.0/116.0) - 16, which is 0 when the product is rounded to      *)
(* double before the subtraction and -2^-52 when the build contracts the   *)
(* two operations into a fused multiply-add.                               *)
C11_BlackIsLabZeroUnlessContracted ==
    /\ (XyzDone /\ Input = <<0, 0, 0>>) => xyz = NoXyz
    /\ (LabDone /\ xyz = NoXyz) =>
           /\ ~DGreater(Ratio(xyz.X, RefWhite.X), Const(8856, 1000000))
           /\ ~DGreater(Ratio(xyz.Y, RefWhite.Y), Const(8856, 1000000))
           /\ ~DGreater(Ratio(xyz.Z, RefWhite.Z), Const(8856, 1000000))
           /\ lab.a = DZero /\ lab.b = DZero
           /\ lab.L = IF fp_contract THEN MinusEpsilon ELSE DZero

\* Black has been converted to XYZ and on to Lab by a build that contracts.
C11_Witness ==
    /\ LabDone /\ Input = <<0, 0, 0>> /\ xyz = SRGBToXyz(0, 0, 0)
    /\ fp_contract /\ lab.L = MinusEpsilon


----------------------------------------------------------------------------
(* C18: deltaE2000 with its arguments exchanged.                           *)
(*                                                                         *)
(* Exchanging the arguments leaves Lp, Cp and Cpprod as they are and       *)
(* negates dL and dC.  The result is the same up to rounding when dhp is   *)
(* negated as well and hp is left as it is, both up to rounding: every     *)
(* term of the sum under the square root is then as before.  A dhp of the  *)
(* same sign in both orders negates the term RT*(dC/Sc)*(dH/Sh), and hp    *)
(* half a turn away changes T, Sh and RT.                                  *)

\* The hues of the two arguments before rounding.
Hue1 == Hue(lab1)

Hue2 == SkewedHue(lab2, skew)

\* hpstd and hpsample of the call in progress.
HeldStd == Hpstd(Hue1, hue_err[1], kept_wide)

HeldSample == Hpsample(Hue2, hue_err[2], kept_wide, lab2)

\* hpstd and hpsample of deltaE2000(lab2, lab1), in the same build.
SwappedStd == Hpstd(Hue2, hue_err[2], kept_wide)

SwappedSample == Hpsample(Hue1, hue_err[1], kept_wide, lab1)

\* dhp and twice hp of deltaE2000(lab2, lab1).
SwappedDhp == Dhp(SwappedStd, SwappedSample, CpprodZero(lab2, lab1))

SwappedTwiceHp ==
    TwiceHp(SwappedStd, SwappedSample, CpprodZero(lab2, lab1))

\* deltaE2000(lab2, lab1) has the dhp of the call in progress negated and
\* its hp, both up to the rounding errors of the two hues.
Mirrored ==
    /\ Abs(diffs.dhp + SwappedDhp) <= 2 * MaxErr
    /\ Abs(twice_hp - SwappedTwiceHp) <= 2 * MaxErr

\* Both chromas are not 0.
BothChromatic == ~Achromatic(lab1) /\ ~Achromatic(lab2)

\* The hues are within the rounding errors of a half turn apart.
NearlyOpposite == Abs(Abs(Hue2 - Hue1) - HalfTurn) <= 2 * MaxErr

\* The hues are within the rounding errors of h and 2*pi - h, so that their
\* mean less pi is within a rounding error of 0.
NearlyConjugate == Abs(Hue1 + Hue2 - FullTurn) <= 2 * MaxErr

----------------------------------------------------------------------------
(* C21: mk_wcwidth returns 0 for every code point of U+1160..U+11FF, the   *)
(* Hangul Jamo medial vowels and final consonants, whether the table of    *)
(* combining characters or the table of wide characters lists the code     *)
(* point or not.                                                           *)
C21_JamoIsZero ==
    (WidthDone /\ ucs \in \H1160 .. \H11FF) => ret = 0

\* A call for the last final consonant, U+11FF, which neither table lists,
\* has returned 0.
C21_Witness ==
    /\ WidthDone /\ ucs = \H11FF /\ ret = 0
    /\ Bisearch(ucs, combining, MaxIndex(combining)) = 0
    /\ Bisearch(ucs, wide, MaxIndex(wide)) = 0

----------------------------------------------------------------------------
(* C22: mk_wcwidth_cjk(u) is 2 where mk_wcwidth(u) is 1, u >= 128 and an   *)
(* interval of the ambiguous table contains u, and is mk_wcwidth(u)        *)
(* everywhere else: the widths -1, 0 and 2 and all of ASCII are kept.      *)

CjkDone == fn = "mk_wcwidth_cjk" /\ pc = "done"

\* An interval of the table contains u.
Listed(u, table) ==
    \E i \in 1 .. Len(table) : table[i][1] <= u /\ u <= table[i][2]

C22_CjkWidensAmbiguousOnly ==
    CjkDone =>
        /\ ret = IF MkWcwidth(ucs) = 1 /\ ucs >= 128 /\ Listed(ucs, ambiguous)
                 THEN 2 ELSE MkWcwidth(ucs)
        /\ (MkWcwidth(ucs) \in {-1, 0, 2} \/ ucs < 128) => ret = MkWcwidth(ucs)

\* A call for U+00A1, the first code point the ambiguous table lists, has
\* returned 2 where mk_wcwidth returns 1.
C22_Witness ==
    /\ CjkDone /\ ucs = \H00A1 /\ Listed(ucs, ambiguous)
    /\ MkWcwidth(ucs) = 1 /\ ret = 2

----------------------------------------------------------------------------
(* C23: the cube coordinate PuTTY_256 computes for a channel value v in    *)
(* 0..255, (v-36)/40 replaced by (v+47)/95 when it is 0, lies in 0..5 and   *)
(* is a nearest cube level: no level of 0..5 has a component nearer to v,  *)
(* and a level whose component is as near is not lower.                    *)

\* n is the lowest of the nearest cube levels of v.
NearestLevel(n, v) ==
    /\ n \in 0 .. 5
    /\ \A k \in 0 .. 5 :
        /\ Abs(CubeComp(n) - v) <= Abs(CubeComp(k) - v)
        /\ (Abs(CubeComp(n) - v) = Abs(CubeComp(k) - v)) => n <= k

C23_CoordinateIsNearestLevel ==
    AnalyticDone =>
        /\ NearestLevel(nr, r) /\ NearestLevel(ng, g) /\ NearestLevel(nb, b)
        /\ (r \in {115, 155, 195, 235}) => CubeComp(nr) = r - 20

\* A call whose red channel is 115, as far from level 1 (95) as from level
\* 2 (135), has taken level 1; its blue channel, 135, has taken level 2.
C23_Witness ==
    /\ AnalyticDone /\ r = 115 /\ nr = 1
    /\ Abs(CubeComp(1) - r) = Abs(CubeComp(2) - r)
    /\ b = 135 /\ nb = 2

----------------------------------------------------------------------------
(* C24: in the grey block of PuTTY_256 the brightness proxy tc of the cube *)
(* colour is computed from the blue coordinate alone, whatever nr and ng   *)
(* are: tc = (nb = 0 ? 0 : 55 + 40*nb) / 3, at most 85.  The terms of the   *)
(* red and the green coordinate are overwritten, not added up.             *)
C24_ProxyIsBlueOnly ==
    (AnalyticDone /\ grey.taken) =>
        /\ grey.tc = (IF nb = 0 THEN 0 ELSE 55 + 40 * nb) \div 3
        /\ grey.tc <= 85
        /\ \A xr, xg \in 0 .. 5 : GreyTc(xr, xg, nb) = grey.tc

\* The grey block has run for the near-grey (116, 115, 115), whose red
\* coordinate is 2 and whose blue coordinate is 1: tc is 95 / 3 = 31, and
\* the mean of the three components would be 108.
C24_Witness ==
    /\ AnalyticDone /\ grey.taken
    /\ <<r, g, b>> = <<116, 115, 115>> /\ <<nr, ng, nb>> = <<2, 1, 1>>
    /\ grey.tc = 31
    /\ (CubeComp(nr) + CubeComp(ng) + CubeComp(nb)) \div 3 = 108

----------------------------------------------------------------------------
\* Some two channels of the input of the call differ by 20 or more.
FarApart ==
    \/ (IF r >= g THEN r - g ELSE g - r) >= 20
    \/ (IF g >= b THEN g - b ELSE b - g) >= 20
    \/ (IF b >= r THEN b - r ELSE r - b) >= 20

\* The three cube coordinates of the call are the same.
OnDiagonal == nr = ng /\ ng = nb

(* C25: PuTTY_256 considers the grayscale ramp only for inputs it treats  *)
(* as achromatic.  When two channels differ by 20 or more and the cube     *)
(* coordinates are not all equal, the result is 16 + nb + ng*6 + nr*36, in *)
(* 16..231; a result in 232..255 needs all three differences below 20 or   *)
(* equal coordinates.                                                       *)
C25_RampOnlyForAchromatic ==
    AnalyticDone =>
        /\ (FarApart /\ ~OnDiagonal) =>
               /\ ret = 16 + nb + ng * 6 + nr * 36
               /\ ret \in 16 .. 231
               /\ ~grey.taken
        /\ ret \in 232 .. 255 => (~FarApart \/ OnDiagonal)

\* PuTTY_256 has returned the cube index 65 for (100, 120, 100), whose
\* green channel is exactly 20 away and whose coordinates are (1, 2, 1).
C25_Witness ==
    /\ AnalyticDone
    /\ <<r, g, b>> = <<100, 120, 100>>
    /\ FarApart /\ ~OnDiagonal
    /\ <<nr, ng, nb>> = <<1, 2, 1>>
    /\ ret = 65

----------------------------------------------------------------------------
\* comp(0) = 0, comp(n) = 55 + 40n.
SpecifiedComp(n) == IF n = 0 THEN 0 ELSE 55 + 40 * n

\* paletteEntryRgb as specified.
SpecifiedEntry(k) ==
    IF k <= 231
    THEN <<SpecifiedComp((k - 16) \div 36),
           SpecifiedComp(((k - 16) \div 6) % 6),
           SpecifiedComp((k - 16) % 6)>>
    ELSE <<8 + 10 * (k - 232), 8 + 10 * (k - 232), 8 + 10 * (k - 232)>>

\* A search loop has decoded the candidate before c.
Decoded(f) == fn = f /\ pc = "loop" /\ c > 16

\* A search loop is about to decode candidate c; every index 16..255 is
\* reached so in each call.
Reaches == pc = "loop" /\ c \in 16 .. 255

(* C26: the palette decoding inlined in XTerm_256, XTerm_256_unused and    *)
(* choose_XTterm256 is the specified paletteEntryRgb: for every index in   *)
(* 16..255 the three give the same colour, the specified one, with each    *)
(* component in 0..255; and the nr, ng, nb a running loop holds are the    *)
(* specified colour of its last candidate.                                 *)
C26_DecodersAgree ==
    /\ Reaches =>
        /\ PaletteEntryRgb(c) = SpecifiedEntry(c)
        /\ UnusedPaletteRgb(c) = SpecifiedEntry(c)
        /\ ChoosePaletteRgb(c) = SpecifiedEntry(c)
        /\ \A j \in 1 .. 3 : SpecifiedEntry(c)[j] \in 0 .. 255
    /\ (Decoded("XTerm_256") \/ Decoded("choose_XTterm256")) =>
        <<nr, ng, nb>> = SpecifiedEntry(c - 1)

\* choose_XTterm256 has decoded index 231, the last of the cube, as white,
\* and the other two decoders give the same for it.
C26_Witness ==
    /\ Decoded("choose_XTterm256")
    /\ c = 232
    /\ <<nr, ng, nb>> = <<255, 255, 255>>
    /\ PaletteEntryRgb(231) = <<nr, ng, nb>>
    /\ UnusedPaletteRgb(231) = <<nr, ng, nb>>

----------------------------------------------------------------------------
\* XTerm_256 is at the test of its loop, before the iteration for c.
InXTermLoop == fn = "XTerm_256" /\ pc = "loop"

\* The minimum squared distance over 16..c-1 and the lowest index that has it.
BestSoFar ==
    /\ nearest_static \in 16 .. c - 1
    /\ best_diff = SqDiff(PaletteEntryRgb(nearest_static), r, g, b)
    /\ \A k \in 16 .. c - 1 :
        LET dk == SqDiff(PaletteEntryRgb(k), r, g, b) IN
        /\ best_diff <= dk
        /\ dk = best_diff => nearest_static <= k

(* C27: the invariant of XTerm_256's loop.  After the iteration for        *)
(* candidate c, best_diff is the minimum squared RGB distance over the     *)
(* indices 16..c and nearest_static the lowest index that attains it;      *)
(* best_diff is negative, the sentinel -1, only before the first           *)
(* iteration, never increases afterwards and stays in 0 .. 3*255*255.      *)
C27_LoopInvariant ==
    /\ [](InXTermLoop /\ c > 16 => BestSoFar)
    /\ [](InXTermLoop => (best_diff < 0 <=> c = 16))
    /\ [](InXTermLoop /\ c = 16 => best_diff = -1)
    /\ [](InXTermLoop /\ c > 16 => best_diff \in 0 .. 3 * 255 * 255)
    /\ [][(InXTermLoop /\ c > 16 /\ fn' = "XTerm_256")
            => best_diff' <= best_diff]_vars

\* The loop is past candidate 100; the best so far is an earlier candidate
\* than the last, found after the first, at a distance above 0, and the
\* last candidate was farther.
C27_Witness ==
    /\ InXTermLoop /\ c = 101
    /\ nearest_static \in 17 .. 99
    /\ best_diff > 0
    /\ this_diff > best_diff
    /\ BestSoFar

----------------------------------------------------------------------------
BisearchDone == fn = "bisearch" /\ pc = "done"

\* Some interval of the table holds the code point.
Member(u, table) ==
    \E i \in 0 .. Len(table) - 1 : table[i + 1][1] <= u /\ u <= table[i + 1][2]

(* C28: bisearch is a correct and terminating membership test.  For a      *)
(* table sorted by first, with first <= last and each last below the next  *)
(* first, and max the index of its last entry, it returns 1 if some        *)
(* interval holds ucs and 0 otherwise; every iteration of its loop returns *)
(* or makes max - min smaller, so the call returns after finitely many     *)
(* steps.  The function MkWcwidth uses gives the same value.               *)
C28_BisearchDecidesMembership ==
    /\ [](BisearchDone =>
            /\ ret = (IF Member(ucs, search.table) THEN 1 ELSE 0)
            /\ ret = Bisearch(ucs, search.table, MaxIndex(search.table)))
    /\ [](fn = "bisearch" /\ pc = "loop" =>
            /\ search.min >= 0 /\ search.max <= MaxIndex(search.table)
            /\ search.max - search.min >= -1)
    /\ [][(fn = "bisearch" /\ pc = "loop" /\ pc' = "loop") =>
            search'.max - search'.min < search.max - search.min]_vars
    /\ (fn = "bisearch" /\ pc = "loop") ~> BisearchDone

\* A search of a table of three intervals has found the code point in the
\* third, after an iteration that moved min.
C28_Witness ==
    /\ BisearchDone /\ ret = 1
    /\ Len(search.table) = 3
    /\ search.min > 0 /\ search.mid = 2
    /\ search.table[3][1] <= ucs /\ ucs <= search.table[3][2]

----------------------------------------------------------------------------
WcswidthDone == fn = "mk_wcswidth" /\ pc = "done"

\* The place of the first zero code point of the cells, one past them if
\* there is none.
FirstZero ==
    LET zs == {i \in 1 .. Len(str.pwcs) : str.pwcs[i] = 0} IN
    IF zs = {} THEN Len(str.pwcs) + 1
    ELSE CHOOSE i \in zs : \A j \in zs : i <= j

\* How many code points the call examines if none stops it: the leading
\* ones before the first zero, at most n of them.
Examined == IF str.n < FirstZero - 1 THEN str.n ELSE FirstZero - 1

RECURSIVE SumOfWidths(_, _)
SumOfWidths(s, k) ==
    IF k = 0 THEN 0 ELSE SumOfWidths(s, k - 1) + MkWcwidth(s[k])

(* C29: mk_wcswidth(pwcs, n) returns -1 if one of the code points it       *)
(* examines has the width -1 and the sum of their widths otherwise, the    *)
(* examined code points being the leading ones before the first zero, at   *)
(* most n of them; what is after a zero or after the first n does not      *)
(* change the result.                                                      *)
C29_WidthOfExaminedPrefix ==
    WcswidthDone =>
        /\ ret = (IF \E i \in 1 .. Examined : MkWcwidth(str.pwcs[i]) = -1
                  THEN -1
                  ELSE SumOfWidths(str.pwcs, Examined))
        /\ \A j \in 1 .. Len(str.pwcs), v \in WideChars :
            (j > str.n \/ j > FirstZero) =>
                MkWcswidth([str.pwcs EXCEPT ![j] = v], str.n) = ret

\* The call has returned 2 for an ideograph, an accent, the terminator and
\* ESC, with n = 3: the ESC after the terminator is not examined.
C29_Witness ==
    /\ WcswidthDone
    /\ str.pwcs = <<\H4E00, \H0301, 0, \H001B>> /\ str.n = 3
    /\ Examined = 2
    /\ ret = 2

----------------------------------------------------------------------------
WcToMbDone == fn = "wc_to_mb" /\ pc = "done"

\* The bytes of the first k wide characters of the call.
RECURSIVE Encoded(_)
Encoded(k) ==
    IF k = 0 THEN <<>> ELSE Encoded(k - 1) \o Utf8(conv.wcstr[k])

\* The first k wide characters all have an encoding and their bytes fit in
\* the buffer.
Fits(k) ==
    /\ \A j \in 1 .. k : Utf8(conv.wcstr[j]) # <<>>
    /\ Len(Encoded(k)) <= conv.mblen

\* The length of the longest prefix that fits.
LongestFit == CHOOSE k \in 0 .. conv.wclen :
                  Fits(k) /\ \A j \in 0 .. conv.wclen : Fits(j) => j <= k

(* C30: wc_to_mb with DEFAULT_CODEPAGE converts the longest prefix of the  *)
(* wide characters whose encodings succeed and together fit in the mblen   *)
(* bytes of the buffer: the buffer holds their bytes in order, never more  *)
(* than mblen, and the return value is their number, above 0 when mblen >  *)
(* 0 and the first character encodes to at most mblen bytes.               *)
C30_ConvertsLongestFittingPrefix ==
    WcToMbDone =>
        /\ conv.mbstr = Encoded(LongestFit)
        /\ ret = Len(conv.mbstr)
        /\ ret <= conv.mblen
        /\ (conv.mblen > 0 /\ conv.wclen > 0 /\ Fits(1)) => ret > 0

=============================================================================
